---------------------------- MODULE Spec2Model ----------------------------
(* A model of tsq (github.com/arjunmahishi/tsq): the worker-pool dispatchers *)
(* runQueryWorkers / runSymbolsWorkers / runRefsWorkers of tsq/codesitter.go *)
(* and the projection functions that turn engine matches into Symbols,       *)
(* outline entries and References.                                           *)
(*                                                                           *)
(* Text is modelled as the sequence of its bytes (Go strings are byte        *)
(* strings): "Foo" is <<70, 111, 111>>.  A capture is the CaptureResult      *)
(* record of types.go; a match is the sequence of its captures together with *)
(* the display path of its file.                                             *)
EXTENDS Integers, Sequences, FiniteSets, Bags, TLC

-----------------------------------------------------------------------------
(* Bounds of the model.                                                      *)

\* Longest file list handed to a dispatcher.
MaxFiles == 2

\* Capacity of the two buffered channels.  The code allocates 128 slots
\* (make(chan ..., 128)); the model scales the buffer down so that lists
\* longer than the job queue and result sets larger than the result channel
\* occur within MaxFiles.
ChanCap == 1

-----------------------------------------------------------------------------
(* Generic helpers on sequences.                                             *)

RECURSIVE Concat(_)
Concat(ss) == IF ss = <<>> THEN <<>> ELSE Head(ss) \o Concat(Tail(ss))

\* The multiset of the elements of a sequence.
RECURSIVE SeqToBag(_)
SeqToBag(s) == IF s = <<>> THEN EmptyBag ELSE SetToBag({Head(s)}) (+) SeqToBag(Tail(s))

Elems(s) == {s[i] : i \in 1..Len(s)}

Max(a, b) == IF a >= b THEN a ELSE b

Min(a, b) == IF a <= b THEN a ELSE b

-----------------------------------------------------------------------------
(* Text: byte strings.                                                       *)

TxtFunc == <<102, 117, 110, 99>>

TxtEllipsis == <<46, 46, 46>>

StartsWith(s, p) == Len(s) >= Len(p) /\ SubSeq(s, 1, Len(p)) = p

EndsWith(s, p) == Len(s) >= Len(p) /\ SubSeq(s, Len(s) - Len(p) + 1, Len(s)) = p

TrimPrefix(s, p) == IF StartsWith(s, p) THEN SubSeq(s, Len(p) + 1, Len(s)) ELSE s

TrimSuffix(s, p) == IF EndsWith(s, p) THEN SubSeq(s, 1, Len(s) - Len(p)) ELSE s

\* unicode.IsSpace on a single-byte rune of a byte string read by
\* strings.Fields: tab, LF, VT, FF, CR and space.
IsSpaceByte(b) == b \in (9..13) \cup {32}

\* unicode.IsUpper on a rune below 256 (Latin-1): A-Z, and the upper-case
\* letters U+00C0..U+00D6, U+00D8..U+00DE.
IsUpper(r) == r \in (65..90) \cup (192..214) \cup (216..222)

\* strings.Split(s, "\n")
RECURSIVE SplitLines(_)
SplitLines(s) ==
    IF \A i \in 1..Len(s) : s[i] # 10 THEN <<s>>
    ELSE LET k == CHOOSE i \in 1..Len(s) : s[i] = 10 /\ \A j \in 1..(i-1) : s[j] # 10
         IN  <<SubSeq(s, 1, k - 1)>> \o SplitLines(SubSeq(s, k + 1, Len(s)))

\* strings.Join(lines, "\n")
RECURSIVE JoinLines(_)
JoinLines(ls) ==
    IF ls = <<>> THEN <<>>
    ELSE IF Len(ls) = 1 THEN ls[1]
    ELSE ls[1] \o <<10>> \o JoinLines(Tail(ls))

\* strings.Fields(s)
RECURSIVE Fields(_)
Fields(s) ==
    IF s = <<>> THEN <<>>
    ELSE IF IsSpaceByte(s[1]) THEN Fields(Tail(s))
    ELSE LET ends == {i \in 1..Len(s) : IsSpaceByte(s[i])}
             k == IF ends = {} THEN Len(s) + 1
                  ELSE CHOOSE i \in ends : \A j \in ends : i <= j
         IN  <<SubSeq(s, 1, k - 1)>> \o Fields(SubSeq(s, k, Len(s)))

\* strings.TrimSpace(s), on ASCII white space
RECURSIVE TrimLeft(_)
TrimLeft(s) == IF s # <<>> /\ IsSpaceByte(s[1]) THEN TrimLeft(Tail(s)) ELSE s

RECURSIVE TrimRight(_)
TrimRight(s) ==
    IF s # <<>> /\ IsSpaceByte(s[Len(s)]) THEN TrimRight(SubSeq(s, 1, Len(s) - 1)) ELSE s

TrimSpace(s) == TrimRight(TrimLeft(s))

-----------------------------------------------------------------------------
(* The data model of types.go.                                               *)

Pos(l, c) == [line |-> l, column |-> c]

Rng(sl, sc, el, ec) == [start |-> Pos(sl, sc), end |-> Pos(el, ec)]

\* The zero value of Range.
ZeroRange == Rng(0, 0, 0, 0)

\* A CaptureResult.
\* NodeType and Text are byte strings; Name is compared for equality only.
Cap(n, nt, t, r) == [name |-> n, nodeType |-> nt, text |-> t, range |-> r]

\* A QueryMatch.
Match(f, p, cs) == [file |-> f, pattern |-> p, captures |-> cs]

\* The zero value of Symbol (Doc is never set by the code).
ZeroSymbol ==
    [name |-> <<>>, kind |-> "", visibility |-> "", file |-> 0, range |-> ZeroRange,
     signature |-> <<>>, source |-> <<>>, receiver |-> <<>>]

\* captures := make(map[string]CaptureResult); captures[c.Name] = c
\* The map is read through Has (the ", ok" of a lookup) and Lookup (the
\* value): the last capture carrying the name wins.
Has(caps, n) == \E i \in 1..Len(caps) : caps[i].name = n

\* The map read as if the first capture carrying the name had won.
LookupFirst(caps, n) ==
    caps[CHOOSE i \in 1..Len(caps) :
            caps[i].name = n /\ \A j \in 1..(i-1) : caps[j].name # n]

Lookup(caps, n) ==
    caps[CHOOSE i \in 1..Len(caps) :
            caps[i].name = n /\ \A j \in (i+1)..Len(caps) : caps[j].name # n]

-----------------------------------------------------------------------------
(* The classifier / projector of codesitter.go.                              *)

TxtStruct == <<115, 116, 114, 117, 99, 116>>

TxtInterface == <<105, 110, 116, 101, 114, 102, 97, 99, 101>>

\* getVisibility: the first BYTE of the name, converted to a rune.
getVisibility(name) ==
    IF Len(name) = 0 THEN "private"
    ELSE IF IsUpper(name[1]) THEN "public"
    ELSE "private"

\* buildFuncSignature
buildFuncSignature(captures) ==
    TxtFunc
    \o (IF Has(captures, "receiver") THEN <<32>> \o Lookup(captures, "receiver").text ELSE <<>>)
    \o (IF Has(captures, "name") THEN <<32>> \o Lookup(captures, "name").text ELSE <<>>)
    \o (IF Has(captures, "params") THEN Lookup(captures, "params").text ELSE <<>>)
    \o (IF Has(captures, "result") THEN <<32>> \o Lookup(captures, "result").text ELSE <<>>)

\* extractReceiverType taking the first field instead of the last.
extractReceiverTypeFirstField(receiver) ==
    LET r1 == TrimPrefix(receiver, <<40>>)
        r2 == TrimSuffix(r1, <<41>>)
        parts == Fields(r2)
    IN  IF Len(parts) >= 1 THEN TrimPrefix(parts[1], <<42>>)
        ELSE r2

\* extractReceiverType
extractReceiverType(receiver) ==
    LET r1 == TrimPrefix(receiver, <<40>>)
        r2 == TrimSuffix(r1, <<41>>)
        parts == Fields(r2)
    IN  IF Len(parts) >= 2 THEN TrimPrefix(parts[Len(parts)], <<42>>)
        ELSE IF Len(parts) = 1 THEN TrimPrefix(parts[1], <<42>>)
        ELSE r2

\* truncateSource with the comparison len(lines) < maxLines.
truncateSourceStrict(source, maxLines) ==
    IF maxLines <= 0 THEN source
    ELSE LET lines == SplitLines(source)
         IN  IF Len(lines) < maxLines THEN source
             ELSE JoinLines(SubSeq(lines, 1, maxLines)) \o <<10>> \o TxtEllipsis

\* truncateSource keeping lines[:maxLines+1].
truncateSourceOneMore(source, maxLines) ==
    IF maxLines <= 0 THEN source
    ELSE LET lines == SplitLines(source)
         IN  IF Len(lines) <= maxLines THEN source
             ELSE JoinLines(SubSeq(lines, 1, maxLines + 1)) \o <<10>> \o TxtEllipsis

\* truncateSource
truncateSource(source, maxLines) ==
    IF maxLines <= 0 THEN source
    ELSE LET lines == SplitLines(source)
         IN  IF Len(lines) <= maxLines THEN source
             ELSE JoinLines(SubSeq(lines, 1, maxLines)) \o <<10>> \o TxtEllipsis

\* The names of the outermost declaration captures.
DeclNames == {"function", "method", "type", "const", "var"}

\* A chain whose type branch does not look at the type_def capture.
KindOfUnrefined(captures) ==
    IF Has(captures, "const") THEN "const"
    ELSE IF Has(captures, "var") THEN "var"
    ELSE IF Has(captures, "function") THEN "function"
    ELSE IF Has(captures, "method") THEN "method"
    ELSE IF Has(captures, "type") THEN "type"
    ELSE ""

\* A chain that tests the type capture before const and var.
KindOfTypeFirst(captures) ==
    IF Has(captures, "type") THEN
        IF Has(captures, "type_def") THEN
            IF StartsWith(Lookup(captures, "type_def").nodeType, TxtStruct) THEN "struct"
            ELSE IF StartsWith(Lookup(captures, "type_def").nodeType, TxtInterface) THEN "interface"
            ELSE "type"
        ELSE "type"
    ELSE IF Has(captures, "const") THEN "const"
    ELSE IF Has(captures, "var") THEN "var"
    ELSE IF Has(captures, "function") THEN "function"
    ELSE IF Has(captures, "method") THEN "method"
    ELSE ""

\* The if / else-if chain of parseSymbolFromMatch: the kind of the symbol, or
\* "" when no branch is taken (return nil).
KindOf(captures) ==
    IF Has(captures, "const") THEN "const"
    ELSE IF Has(captures, "var") THEN "var"
    ELSE IF Has(captures, "function") THEN "function"
    ELSE IF Has(captures, "method") THEN "method"
    ELSE IF Has(captures, "type") THEN
        IF Has(captures, "type_def") THEN
            IF StartsWith(Lookup(captures, "type_def").nodeType, TxtStruct) THEN "struct"
            ELSE IF StartsWith(Lookup(captures, "type_def").nodeType, TxtInterface) THEN "interface"
            ELSE "type"
        ELSE "type"
    ELSE ""

\* Which branch of the chain was taken: the capture name that decided it.
BranchOf(captures) ==
    IF Has(captures, "const") THEN "const"
    ELSE IF Has(captures, "var") THEN "var"
    ELSE IF Has(captures, "function") THEN "function"
    ELSE IF Has(captures, "method") THEN "method"
    ELSE IF Has(captures, "type") THEN "type"
    ELSE ""

\* sym.Name after the chain: the text of the name capture, "" without one.
SymName(captures) ==
    IF Has(captures, "name") THEN Lookup(captures, "name").text ELSE <<>>

\* sym.Range after the chain: the name's range, overwritten by the range of
\* the type capture in the type branch.
SymRange(captures) ==
    IF BranchOf(captures) = "type" THEN Lookup(captures, "type").range
    ELSE IF Has(captures, "name") THEN Lookup(captures, "name").range
    ELSE ZeroRange

\* The loop `for _, c := range match.Captures { if c.Name == "function" ||
\* ... { ...; break } }`: whether it finds a capture, and the first it finds.
HasOuter(captures) == \E i \in 1..Len(captures) : captures[i].name \in DeclNames

Outer(captures) ==
    captures[CHOOSE i \in 1..Len(captures) :
                /\ captures[i].name \in DeclNames
                /\ \A j \in 1..(i-1) : captures[j].name \notin DeclNames]

\* parseSymbolFromMatch: <<>> for nil, <<sym>> for &sym.
parseSymbolFromMatch(match, includeSrc, maxSrcLines) ==
    IF BranchOf(match.captures) = "" THEN <<>>
    ELSE IF SymName(match.captures) = <<>> THEN <<>>
    ELSE <<[name |-> SymName(match.captures),
            kind |-> KindOf(match.captures),
            visibility |-> getVisibility(SymName(match.captures)),
            file |-> match.file,
            range |-> IF includeSrc /\ HasOuter(match.captures)
                      THEN Outer(match.captures).range
                      ELSE SymRange(match.captures),
            signature |-> IF BranchOf(match.captures) \in {"function", "method"}
                          THEN buildFuncSignature(match.captures) ELSE <<>>,
            source |-> IF includeSrc /\ HasOuter(match.captures)
                       THEN truncateSource(Outer(match.captures).text, maxSrcLines)
                       ELSE <<>>,
            receiver |-> IF BranchOf(match.captures) = "method"
                            /\ Has(match.captures, "receiver")
                         THEN extractReceiverType(Lookup(match.captures, "receiver").text)
                         ELSE <<>>]>>

\* A switch whose "private" case lets every symbol through.
VisibilityFilterPublicOnly(sym, vis) ==
    IF sym = <<>> THEN <<>>
    ELSE IF vis = "public" /\ sym[1].visibility # "public" THEN <<>>
    ELSE sym

\* The visibility switch of extractSymbols on a parsed symbol (<<>> for nil).
VisibilityFilter(sym, vis) ==
    IF sym = <<>> THEN <<>>
    ELSE IF vis = "public" /\ sym[1].visibility # "public" THEN <<>>
    ELSE IF vis = "private" /\ sym[1].visibility # "private" THEN <<>>
    ELSE sym

\* extractSymbols.  (`match` ranges over the one-element set {Head(matches)}:
\* the loop variable, bound to its value.)
RECURSIVE extractSymbols(_, _, _, _)
extractSymbols(matches, vis, includeSrc, maxSrcLines) ==
    IF matches = <<>> THEN <<>>
    ELSE (CHOOSE kept \in {VisibilityFilter(parseSymbolFromMatch(match, includeSrc,
                                                                 maxSrcLines), vis) :
                           match \in {Head(matches)}} : TRUE)
         \o extractSymbols(Tail(matches), vis, includeSrc, maxSrcLines)

\* A switch without the short_var case.
RefKindIdentOnly(capName) ==
    CASE capName = "call" -> "call"
      [] capName \in {"type_ref", "composite_type"} -> "type_ref"
      [] capName = "field" -> "field_access"
      [] capName = "ident" -> "identifier"
      [] OTHER -> "reference"

\* The kind of a reference, from the capture name (the switch of findReferences).
RefKind(capName) ==
    CASE capName = "call" -> "call"
      [] capName \in {"type_ref", "composite_type"} -> "type_ref"
      [] capName = "field" -> "field_access"
      [] capName \in {"ident", "short_var"} -> "identifier"
      [] OTHER -> "reference"

\* An inner loop that keeps every capture whose text begins with the term.
RECURSIVE RefsOfCapturesPrefix(_, _, _, _, _)
RefsOfCapturesPrefix(caps, file, lines, term, withContext) ==
    IF caps = <<>> THEN <<>>
    ELSE LET c == Head(caps)
             lineIdx == c.range.start.line - 1
             ref == [symbol |-> term,
                     kind |-> RefKind(c.name),
                     file |-> file,
                     position |-> Pos(c.range.start.line, c.range.start.column),
                     context |-> IF withContext /\ lineIdx >= 0 /\ lineIdx < Len(lines)
                                 THEN TrimSpace(lines[lineIdx + 1]) ELSE <<>>]
         IN  (IF ~StartsWith(c.text, term) THEN <<>> ELSE <<ref>>)
             \o RefsOfCapturesPrefix(Tail(caps), file, lines, term, withContext)

\* An inner loop that attaches the source line as it stands.
RECURSIVE RefsOfCapturesRawLine(_, _, _, _, _)
RefsOfCapturesRawLine(caps, file, lines, term, withContext) ==
    IF caps = <<>> THEN <<>>
    ELSE LET c == Head(caps)
             lineIdx == c.range.start.line - 1
             ref == [symbol |-> term,
                     kind |-> RefKind(c.name),
                     file |-> file,
                     position |-> Pos(c.range.start.line, c.range.start.column),
                     context |-> IF withContext /\ lineIdx >= 0 /\ lineIdx < Len(lines)
                                 THEN lines[lineIdx + 1] ELSE <<>>]
         IN  (IF c.text # term THEN <<>> ELSE <<ref>>)
             \o RefsOfCapturesRawLine(Tail(caps), file, lines, term, withContext)

\* The References of one match: the inner loop of findReferences.
RECURSIVE RefsOfCaptures(_, _, _, _, _)
RefsOfCaptures(caps, file, lines, term, withContext) ==
    IF caps = <<>> THEN <<>>
    ELSE LET c == Head(caps)
             lineIdx == c.range.start.line - 1
             ref == [symbol |-> term,
                     kind |-> RefKind(c.name),
                     file |-> file,
                     position |-> Pos(c.range.start.line, c.range.start.column),
                     context |-> IF withContext /\ lineIdx >= 0 /\ lineIdx < Len(lines)
                                 THEN TrimSpace(lines[lineIdx + 1]) ELSE <<>>]
         IN  (IF c.text # term THEN <<>> ELSE <<ref>>)
             \o RefsOfCaptures(Tail(caps), file, lines, term, withContext)

\* findReferences
RECURSIVE findReferences(_, _, _, _)
findReferences(matches, source, term, withContext) ==
    IF matches = <<>> THEN <<>>
    ELSE RefsOfCaptures(Head(matches).captures, Head(matches).file,
                        SplitLines(source), term, withContext)
         \o findReferences(Tail(matches), source, term, withContext)

-----------------------------------------------------------------------------
(* buildOutline.                                                             *)

\* strings.Trim(s, `"`)
RECURSIVE TrimQuotesLeft(_)
TrimQuotesLeft(s) == IF s # <<>> /\ s[1] = 34 THEN TrimQuotesLeft(Tail(s)) ELSE s

RECURSIVE TrimQuotesRight(_)
TrimQuotesRight(s) ==
    IF s # <<>> /\ s[Len(s)] = 34 THEN TrimQuotesRight(SubSeq(s, 1, Len(s) - 1)) ELSE s

TrimQuotes(s) == TrimQuotesRight(TrimQuotesLeft(s))

\* The Symbol literal built in each branch of buildOutline.
OutlineSymbol(kind, file, captures, declName, nameCap, includeSrc, maxSrcLines) ==
    [ZeroSymbol EXCEPT
        !.kind = kind,
        !.name = Lookup(captures, nameCap).text,
        !.file = file,
        !.range = Lookup(captures, declName).range,
        !.visibility = getVisibility(Lookup(captures, nameCap).text),
        !.receiver = IF kind = "method" /\ Has(captures, "receiver_type")
                     THEN TrimPrefix(Lookup(captures, "receiver_type").text, <<42>>)
                     ELSE <<>>,
        !.source = IF includeSrc
                   THEN truncateSource(Lookup(captures, declName).text, maxSrcLines)
                   ELSE <<>>]

TypeCats == <<"type_alias", "type_ptr", "type_slice", "type_map", "type_func">>

\* The symbols one simple branch appends: `if _, ok := captures[decl]; ok {
\* if name, ok := captures[nameCap]; ok { append } }`.
BranchSymbols(kind, file, captures, declName, nameCap, includeSrc, maxSrcLines) ==
    IF Has(captures, declName) /\ Has(captures, nameCap)
    THEN <<OutlineSymbol(kind, file, captures, declName, nameCap, includeSrc, maxSrcLines)>>
    ELSE <<>>

\* The body of the loop of buildOutline for one match: the outline after it.
OutlineStep(outline, match, includeSrc, maxSrcLines) ==
    LET captures == match.captures
        file == outline.file
        cats == {i \in 1..Len(TypeCats) : Has(captures, TypeCats[i])}
        cat == TypeCats[CHOOSE i \in cats : \A j \in cats : i <= j]
        \* the for loop over typeCat: the first category present, then break
        typeSyms == IF cats = {} THEN <<>>
                    ELSE BranchSymbols("type", file, captures, cat, "type_name",
                                       includeSrc, maxSrcLines)
        \* the loop does not `continue`: the const and var checks follow it
        tailSyms == IF Has(captures, "const")
                    THEN BranchSymbols("const", file, captures, "const", "const_name",
                                       includeSrc, maxSrcLines)
                    ELSE BranchSymbols("var", file, captures, "var", "var_name",
                                       includeSrc, maxSrcLines)
    IN  IF Has(captures, "package")
        THEN [outline EXCEPT !.package = Lookup(captures, "package").text]
        ELSE IF Has(captures, "path")
        THEN [outline EXCEPT !.imports = @ \o
                <<[path |-> TrimQuotes(Lookup(captures, "path").text),
                   alias |-> IF Has(captures, "alias")
                             THEN Lookup(captures, "alias").text ELSE <<>>]>>]
        ELSE IF Has(captures, "function")
        THEN [outline EXCEPT !.symbols = @ \o
                BranchSymbols("function", file, captures, "function", "func_name",
                              includeSrc, maxSrcLines)]
        ELSE IF Has(captures, "method")
        THEN [outline EXCEPT !.symbols = @ \o
                BranchSymbols("method", file, captures, "method", "method_name",
                              includeSrc, maxSrcLines)]
        ELSE IF Has(captures, "struct")
        THEN [outline EXCEPT !.symbols = @ \o
                BranchSymbols("struct", file, captures, "struct", "type_name",
                              includeSrc, maxSrcLines)]
        ELSE IF Has(captures, "interface")
        THEN [outline EXCEPT !.symbols = @ \o
                BranchSymbols("interface", file, captures, "interface", "type_name",
                              includeSrc, maxSrcLines)]
        ELSE [outline EXCEPT !.symbols = @ \o typeSyms \o tailSyms]

\* The FileOutline buildOutline starts from.
EmptyOutline(file) == [file |-> file, package |-> <<>>, imports |-> <<>>, symbols |-> <<>>]

RECURSIVE OutlineFold(_, _, _, _)
OutlineFold(outline, matches, includeSrc, maxSrcLines) ==
    IF matches = <<>> THEN outline
    ELSE OutlineFold(OutlineStep(outline, Head(matches), includeSrc, maxSrcLines),
                     Tail(matches), includeSrc, maxSrcLines)

\* buildOutline
buildOutline(file, matches, includeSrc, maxSrcLines) ==
    OutlineFold(EmptyOutline(file), matches, includeSrc, maxSrcLines)

-----------------------------------------------------------------------------
(* The files of the model and what the pattern engine yields on them.        *)
(*                                                                           *)
(* A file is one of four contents.  The engine (query.run over the           *)
(* tree-sitter cursor) is an external collaborator: for each content the     *)
(* model tabulates the captures of each match it yields under the three      *)
(* queries the dispatchers are run with.                                     *)
(*   1  a file that cannot be read (os.ReadFile fails)                       *)
(*   2  package p                                                            *)
(*   3  func F(){}  /  func g(){}                                            *)
(*   4  var F=g()                                                            *)
(* A fifth content, var x Foo=Foo(), is the file of the reference search in  *)
(* which a name occurs once called and once as a type annotation; it is not  *)
(* among the files the dispatchers are run on.  A sixth content is one       *)
(* function spread over twelve lines, func F(){ ... }, with ten empty lines  *)
(* in its body; it is given to the aggregators in file mode.                 *)

Contents == 1..4

Readable(c) == c # 1

\* A seventh content stands for a file on which the parse never returns.
Hangs(c) == c = 7

\* The text of the sixth content: `func F(){`, ten empty lines, `}`.
TxtLong ==
    <<102, 117, 110, 99, 32, 70, 40, 41, 123, 10, 10, 10, 10, 10, 10, 10, 10, 10, 10, 10, 125>>

SourceOf(c) ==
    CASE c = 2 -> <<112, 97, 99, 107, 97, 103, 101, 32, 112>>
      [] c = 3 -> <<102, 117, 110, 99, 32, 70, 40, 41, 123, 125, 10, 102, 117, 110, 99, 32, 103, 40, 41, 123, 125>>
      [] c = 4 -> <<118, 97, 114, 32, 70, 61, 103, 40, 41>>
      [] c = 5 -> <<118, 97, 114, 32, 120, 32, 70, 111, 111, 61, 70, 111, 111, 40, 41>>
      [] c = 6 -> TxtLong
      [] OTHER -> <<>>

\* (function_declaration name: (identifier) @name), the query of the
\* worker-pool test.
CustomCaptures(c) ==
    CASE c = 3 -> << <<Cap("name", <<105, 100, 101, 110, 116, 105, 102, 105, 101, 114>>, <<70>>, Rng(1, 6, 1, 7))>>,
                     <<Cap("name", <<105, 100, 101, 110, 116, 105, 102, 105, 101, 114>>, <<103>>, Rng(2, 6, 2, 7))>> >>
      [] c = 6 -> << <<Cap("name", <<105, 100, 101, 110, 116, 105, 102, 105, 101, 114>>, <<70>>, Rng(1, 6, 1, 7))>> >>
      [] OTHER -> <<>>

\* queries/go/symbols.scm
SymbolsCaptures(c) ==
    CASE c = 3 -> << <<Cap("function", <<102, 117, 110, 99, 116, 105, 111, 110, 95, 100, 101, 99, 108, 97, 114, 97, 116, 105, 111, 110>>, <<102, 117, 110, 99, 32, 70, 40, 41, 123, 125>>, Rng(1, 1, 1, 11)),
                       Cap("name", <<105, 100, 101, 110, 116, 105, 102, 105, 101, 114>>, <<70>>, Rng(1, 6, 1, 7)),
                       Cap("params", <<112, 97, 114, 97, 109, 101, 116, 101, 114, 95, 108, 105, 115, 116>>, <<40, 41>>, Rng(1, 7, 1, 9))>>,
                     <<Cap("function", <<102, 117, 110, 99, 116, 105, 111, 110, 95, 100, 101, 99, 108, 97, 114, 97, 116, 105, 111, 110>>, <<102, 117, 110, 99, 32, 103, 40, 41, 123, 125>>, Rng(2, 1, 2, 11)),
                       Cap("name", <<105, 100, 101, 110, 116, 105, 102, 105, 101, 114>>, <<103>>, Rng(2, 6, 2, 7)),
                       Cap("params", <<112, 97, 114, 97, 109, 101, 116, 101, 114, 95, 108, 105, 115, 116>>, <<40, 41>>, Rng(2, 7, 2, 9))>> >>
      [] c = 4 -> << <<Cap("var", <<118, 97, 114, 95, 100, 101, 99, 108, 97, 114, 97, 116, 105, 111, 110>>, <<118, 97, 114, 32, 70, 61, 103, 40, 41>>, Rng(1, 1, 1, 10)),
                       Cap("name", <<105, 100, 101, 110, 116, 105, 102, 105, 101, 114>>, <<70>>, Rng(1, 5, 1, 6)),
                       Cap("value", <<101, 120, 112, 114, 101, 115, 115, 105, 111, 110, 95, 108, 105, 115, 116>>, <<103, 40, 41>>, Rng(1, 7, 1, 10))>> >>
      [] c = 6 -> << <<Cap("function", <<102, 117, 110, 99, 116, 105, 111, 110, 95, 100, 101, 99, 108, 97, 114, 97, 116, 105, 111, 110>>, TxtLong, Rng(1, 1, 12, 2)),
                       Cap("name", <<105, 100, 101, 110, 116, 105, 102, 105, 101, 114>>, <<70>>, Rng(1, 6, 1, 7)),
                       Cap("params", <<112, 97, 114, 97, 109, 101, 116, 101, 114, 95, 108, 105, 115, 116>>, <<40, 41>>, Rng(1, 7, 1, 9))>> >>
      [] OTHER -> <<>>

\* queries/go/refs.scm
RefsCaptures(c) ==
    CASE c = 3 -> << <<Cap("ident", <<105, 100, 101, 110, 116, 105, 102, 105, 101, 114>>, <<70>>, Rng(1, 6, 1, 7))>>,
                     <<Cap("ident", <<105, 100, 101, 110, 116, 105, 102, 105, 101, 114>>, <<103>>, Rng(2, 6, 2, 7))>> >>
      [] c = 4 -> << <<Cap("ident", <<105, 100, 101, 110, 116, 105, 102, 105, 101, 114>>, <<70>>, Rng(1, 5, 1, 6))>>,
                     <<Cap("call", <<105, 100, 101, 110, 116, 105, 102, 105, 101, 114>>, <<103>>, Rng(1, 7, 1, 8))>>,
                     <<Cap("ident", <<105, 100, 101, 110, 116, 105, 102, 105, 101, 114>>, <<103>>, Rng(1, 7, 1, 8))>> >>
      [] c = 5 -> << <<Cap("ident", <<105, 100, 101, 110, 116, 105, 102, 105, 101, 114>>, <<120>>, Rng(1, 5, 1, 6))>>,
                     <<Cap("type_ref", <<116, 121, 112, 101, 95, 105, 100, 101, 110, 116, 105, 102, 105, 101, 114>>, <<70, 111, 111>>, Rng(1, 7, 1, 10))>>,
                     <<Cap("call", <<105, 100, 101, 110, 116, 105, 102, 105, 101, 114>>, <<70, 111, 111>>, Rng(1, 11, 1, 14))>>,
                     <<Cap("ident", <<105, 100, 101, 110, 116, 105, 102, 105, 101, 114>>, <<70, 111, 111>>, Rng(1, 11, 1, 14))>> >>
      [] c = 6 -> << <<Cap("ident", <<105, 100, 101, 110, 116, 105, 102, 105, 101, 114>>, <<70>>, Rng(1, 6, 1, 7))>> >>
      [] OTHER -> <<>>

\* queries/go/outline.scm
OutlineCaptures(c) ==
    CASE c = 2 -> << <<Cap("package", <<112, 97, 99, 107, 97, 103, 101, 95, 105, 100, 101, 110, 116, 105, 102, 105, 101, 114>>, <<112>>, Rng(1, 9, 1, 10))>> >>
      [] c = 3 -> << <<Cap("function", <<102, 117, 110, 99, 116, 105, 111, 110, 95, 100, 101, 99, 108, 97, 114, 97, 116, 105, 111, 110>>, <<102, 117, 110, 99, 32, 70, 40, 41, 123, 125>>, Rng(1, 1, 1, 11)),
                       Cap("func_name", <<105, 100, 101, 110, 116, 105, 102, 105, 101, 114>>, <<70>>, Rng(1, 6, 1, 7))>>,
                     <<Cap("function", <<102, 117, 110, 99, 116, 105, 111, 110, 95, 100, 101, 99, 108, 97, 114, 97, 116, 105, 111, 110>>, <<102, 117, 110, 99, 32, 103, 40, 41, 123, 125>>, Rng(2, 1, 2, 11)),
                       Cap("func_name", <<105, 100, 101, 110, 116, 105, 102, 105, 101, 114>>, <<103>>, Rng(2, 6, 2, 7))>> >>
      [] c = 4 -> << <<Cap("var", <<118, 97, 114, 95, 100, 101, 99, 108, 97, 114, 97, 116, 105, 111, 110>>, <<118, 97, 114, 32, 70, 61, 103, 40, 41>>, Rng(1, 1, 1, 10)),
                       Cap("var_name", <<105, 100, 101, 110, 116, 105, 102, 105, 101, 114>>, <<70>>, Rng(1, 5, 1, 6))>> >>
      [] c = 6 -> << <<Cap("function", <<102, 117, 110, 99, 116, 105, 111, 110, 95, 100, 101, 99, 108, 97, 114, 97, 116, 105, 111, 110>>, TxtLong, Rng(1, 1, 12, 2)),
                       Cap("func_name", <<105, 100, 101, 110, 116, 105, 102, 105, 101, 114>>, <<70>>, Rng(1, 6, 1, 7))>> >>
      [] OTHER -> <<>>

\* The pattern index tree-sitter reports for a match.
PatternOf(kind, caps) ==
    IF kind = "symbols" THEN
        (CASE Has(caps, "function") -> 0 [] Has(caps, "method") -> 1
           [] Has(caps, "const") -> 3 [] Has(caps, "var") -> 4 [] OTHER -> 2)
    ELSE IF kind = "refs" THEN
        (CASE Has(caps, "call") -> 0 [] Has(caps, "type_ref") -> 2
           [] Has(caps, "ident") -> 3 [] OTHER -> 4)
    ELSE IF kind = "outline" THEN
        (CASE Has(caps, "package") -> 0 [] Has(caps, "function") -> 3
           [] Has(caps, "var") -> 13 [] OTHER -> 12)
    ELSE 0

\* A FileJob: the display path (here the position in the file list) and the
\* content found at its absolute path.
FileJob(p, c) == [path |-> p, content |-> c]

\* The loop of query.run over the cursor: each capture list becomes a
\* QueryMatch tagged with the display path.
RECURSIVE TagMatches(_, _, _)
TagMatches(kind, path, capLists) ==
    IF capLists = <<>> THEN <<>>
    ELSE <<Match(path, PatternOf(kind, Head(capLists)), Head(capLists))>>
         \o TagMatches(kind, path, Tail(capLists))

\* query.run(tree, source, job.DisplayPath): the matches in engine order, each
\* tagged with the display path.
QueryRun(kind, job) ==
    TagMatches(kind, job.path,
               CASE kind = "symbols" -> SymbolsCaptures(job.content)
                 [] kind = "refs" -> RefsCaptures(job.content)
                 [] kind = "outline" -> OutlineCaptures(job.content)
                 [] OTHER -> CustomCaptures(job.content))

-----------------------------------------------------------------------------
(* The dispatchers: runQueryWorkers, runSymbolsWorkers, runRefsWorkers.      *)
(* The three functions are the same worker pool around three per-file        *)
(* bodies; `kind` says which one is running.                                 *)

VARIABLES
    kind,            \* "query" | "symbols" | "refs": which dispatcher runs
    files,           \* files []FileJob
    jobs,            \* jobs int, the requested worker count
    visibility,      \* visibility string (runSymbolsWorkers)
    includeSource,   \* includeSource bool (runSymbolsWorkers)
    maxSourceLines,  \* maxSourceLines int (runSymbolsWorkers)
    symbolName,      \* symbolName string (runRefsWorkers)
    includeContext,  \* includeContext bool (runRefsWorkers)
    workerCount,     \* workerCount, once computed
    wparser,         \* per worker, the parser it created (0: none yet)
    wg,              \* the counter of the sync.WaitGroup
    jobQueue,        \* the buffer of jobQueue
    jobClosed,       \* close(jobQueue) has run
    results,         \* the buffer of results
    resClosed,       \* close(results) has run
    panicked,        \* a send on, or a close of, a closed channel has happened
    mainPc,          \* the caller: "idle" | "start" | "drain" | "done"
    feederPc,        \* the feeding goroutine: "idle" | "feed" | "done"
    fed,             \* how many files the feeder has enqueued
    closerPc,        \* the closing goroutine: "idle" | "wait" | "close" | "done"
    wpc,             \* each worker: "idle" | "recv" | "parse" | "send" | "exit"
    wjob,            \* each worker's current job (<<>> when it holds none)
    wout,            \* each worker's results still to be sent for its job
    allMatches,      \* allMatches / allResults / allRefs of the caller
    runNo,           \* which call of the dispatcher this is (1, or 2 after a repeat)
    firstRun,        \* the result of the first call, up to order (a bag)
    cpc,             \* projection under study: "idle" | "symbol" | "outline" | "refs"
                     \*   | "receiver" | "truncate" | "again"
    cmatch,          \* the match handed to parseSymbolFromMatch / buildOutline
    csym,            \* what parseSymbolFromMatch returned (<<>> for nil)
    coutline,        \* what buildOutline returned
    cmatches,        \* the matches handed to findReferences
    crefs,           \* what findReferences returned
    utext,           \* the text handed to extractReceiverType / truncateSource
    umax,            \* the maxLines handed to truncateSource
    uout,            \* what extractReceiverType / truncateSource returned
    fn,              \* the aggregator called: "Query" | "Symbols" | "Refs" | "Outline"
    args,            \* the options the caller passed, and the file system of the call
    opts,            \* opts as the aggregator has them (defaults applied in place)
    apc,             \* the aggregator's position
    compiles,        \* calls of newQuery made by the call
    scans,           \* calls of scanner.collect (directory walks) made by the call
    areads,          \* calls of parseFile made by the aggregator itself (Outline)
    ret              \* what the aggregator returned

vars == <<kind, files, jobs, visibility, includeSource, maxSourceLines, symbolName,
          includeContext, workerCount, wparser, wg, jobQueue, jobClosed, results, resClosed,
          panicked, mainPc, feederPc, fed, closerPc, wpc, wjob, wout, allMatches,
          runNo, firstRun, cpc, cmatch, csym, coutline, cmatches, crefs,
          utext, umax, uout, fn, args, opts, apc, compiles, scans, areads, ret>>

\* The state of a reference search under study.
refVars == <<cmatches, crefs>>

\* The state of a text function under study.
textVars == <<utext, umax, uout>>

\* What a dispatcher call allocates and its goroutines work on (the caller's
\* position apart).
pool == <<workerCount, wparser, wg, jobQueue, jobClosed, results, resClosed, panicked, feederPc, fed,
          closerPc, wpc, wjob, wout, allMatches>>

\* The record of an earlier run and the projections under study.
study == <<runNo, firstRun, cpc, cmatch, csym, coutline, refVars, textVars>>

\* The state of an aggregator call.
aggVars == <<fn, args, opts, apc, compiles, scans, areads, ret>>

Kinds == {"query", "symbols", "refs"}

\* Worker slots: workerCount never exceeds len(files).
Workers == 1..MaxFiles

\* Requested worker counts: negative, zero, and up to more than any list holds.
JobsRange == (-1)..(MaxFiles + 1)

\* All file lists of length n over the contents; the display path of a job is
\* its position in the list.
FileLists(n) == {[i \in 1..n |-> FileJob(i, cs[i])] : cs \in [1..n -> Contents]}

\* A clamp without the lower bound.
ClampNoFloor(requested, n) == IF requested > n THEN n ELSE requested

\* A clamp that applies the lower bound last.
ClampFloorLast(requested, n) ==
    LET w1 == IF requested > n THEN n ELSE requested
    IN  IF w1 < 1 THEN 1 ELSE w1

\* workerCount := jobs; if workerCount < 1 {...}; if workerCount > len(files) {...}
ClampWorkers(requested, n) ==
    LET w1 == IF requested < 1 THEN 1 ELSE requested
    IN  IF w1 > n THEN n ELSE w1

\* The body of a worker's loop after query.run: what it sends for the matches
\* of one file.
\* A worker that sends a SymbolsResult for every file, also with no symbol.
PerFileSendsEmpty(k, path, source, matches, vis, incSrc, maxLines, term, withCtx) ==
    IF k = "symbols" THEN
        <<[file |-> path, symbols |-> extractSymbols(matches, vis, incSrc, maxLines)]>>
    ELSE IF k = "refs" THEN findReferences(matches, source, term, withCtx)
    ELSE matches

PerFile(k, path, source, matches, vis, incSrc, maxLines, term, withCtx) ==
    IF k = "symbols" THEN
        (IF Len(extractSymbols(matches, vis, incSrc, maxLines)) > 0
         THEN <<[file |-> path,
                 symbols |-> extractSymbols(matches, vis, incSrc, maxLines)]>>
         ELSE <<>>)
    ELSE IF k = "refs" THEN findReferences(matches, source, term, withCtx)
    ELSE matches

\* What a worker sends for one readable file: the body of its loop after
\* parseFile has succeeded.  (`matches` ranges over the one-element set
\* {QueryRun(k, job)}: the local variable, bound to its value.)
Process(k, job, vis, incSrc, maxLines, term, withCtx) ==
    CHOOSE out \in {PerFile(k, job.path, SourceOf(job.content), matches, vis, incSrc,
                            maxLines, term, withCtx) :
                    matches \in {QueryRun(k, job)}} : TRUE

TxtF == <<70>>

\* Before the call: nothing is allocated and no argument is bound.
InitDispatch ==
    /\ kind = "query"
    /\ files = <<>>
    /\ jobs = 0
    /\ visibility = "all"
    /\ includeSource = FALSE
    /\ maxSourceLines = 10
    /\ symbolName = TxtF
    /\ includeContext = FALSE
    /\ workerCount = 0
    /\ wparser = [w \in Workers |-> 0]
    /\ wg = 0
    /\ jobQueue = <<>>
    /\ jobClosed = FALSE
    /\ results = <<>>
    /\ resClosed = FALSE
    /\ panicked = FALSE
    /\ mainPc = "idle"
    /\ feederPc = "idle"
    /\ fed = 0
    /\ closerPc = "idle"
    /\ wpc = [w \in Workers |-> "idle"]
    /\ wjob = [w \in Workers |-> <<>>]
    /\ wout = [w \in Workers |-> <<>>]
    /\ allMatches = <<>>
    /\ runNo = 1
    /\ firstRun = EmptyBag

\* No projection has been computed.
InitClassify ==
    /\ cpc = "idle"
    /\ cmatch = Match(0, 0, <<>>)
    /\ csym = <<>>
    /\ coutline = EmptyOutline(0)
    /\ cmatches = <<>>
    /\ crefs = <<>>
    /\ utext = <<>>
    /\ umax = 0
    /\ uout = <<>>

\* No aggregator has been called.
InitAggregate ==
    /\ fn = "Query"
    /\ args = <<>>
    /\ opts = <<>>
    /\ apc = "idle"
    /\ compiles = 0
    /\ scans = 0
    /\ areads = 0
    /\ ret = [err |-> "", isNil |-> TRUE, value |-> <<>>]

Init == InitDispatch /\ InitClassify /\ InitAggregate

params == <<kind, files, jobs, visibility, includeSource, maxSourceLines, symbolName,
            includeContext>>

\* What a step of a dispatcher run leaves alone: the caller's record of an
\* earlier run and the projections under study.
outside == <<runNo, firstRun, cpc, cmatch, csym, coutline, refVars, textVars, aggVars>>

\* The call of a dispatcher: one of the three functions is entered with a
\* file list and a requested worker count.
Call ==
    /\ mainPc = "idle"
    /\ \E k \in Kinds, n \in 0..MaxFiles, j \in JobsRange :
         \E fl \in FileLists(n) :
            /\ kind' = k
            /\ files' = fl
            /\ jobs' = j
    /\ mainPc' = "start"
    /\ UNCHANGED <<outside, visibility, includeSource, maxSourceLines, symbolName, includeContext,
                   workerCount, wparser, wg, jobQueue, jobClosed, results, resClosed, panicked,
                   feederPc, fed, closerPc, wpc, wjob, wout, allMatches>>

\* newParser(language): the n-th parser instance made during a dispatch.
NewParser(n) == n

\* A caller that makes one parser and hands it to every worker.
StartSharedParser ==
    /\ mainPc = "start"
    /\ ~panicked
    /\ workerCount' = ClampWorkers(jobs, Len(files))
    /\ wparser' = [w \in Workers |-> IF w <= workerCount' THEN NewParser(1) ELSE 0]
    /\ wg' = wg + workerCount'
    /\ wpc' = [w \in Workers |-> IF w <= workerCount' THEN "recv" ELSE "idle"]
    /\ feederPc' = "feed"
    /\ closerPc' = "wait"
    /\ mainPc' = "drain"
    /\ UNCHANGED <<params, outside, jobQueue, jobClosed, results, resClosed, panicked, fed,
                   wjob, wout, allMatches>>

\* The caller, from the make(chan) lines to the last `go func()`: the worker
\* count is clamped, wg.Add(workerCount), and the workers, the feeder and the
\* closer are started.  The first statement of a worker, p := newParser(...),
\* touches nothing shared and is taken together with the `go` that starts it.
Start ==
    /\ mainPc = "start"
    /\ ~panicked
    /\ workerCount' = ClampWorkers(jobs, Len(files))
    /\ wparser' = [w \in Workers |-> IF w <= workerCount' THEN NewParser(w) ELSE 0]
    /\ wg' = wg + workerCount'
    /\ wpc' = [w \in Workers |-> IF w <= workerCount' THEN "recv" ELSE "idle"]
    /\ feederPc' = "feed"
    /\ closerPc' = "wait"
    /\ mainPc' = "drain"
    /\ UNCHANGED <<params, outside, jobQueue, jobClosed, results, resClosed, panicked, fed,
                   wjob, wout, allMatches>>

\* A feeder that walks the file list from its end.
FeedSendReverse ==
    /\ feederPc = "feed"
    /\ ~panicked
    /\ fed < Len(files)
    /\ Len(jobQueue) < ChanCap
    /\ jobQueue' = Append(jobQueue, files[Len(files) - fed])
    /\ fed' = fed + 1
    /\ panicked' = jobClosed
    /\ UNCHANGED <<params, outside, workerCount, wparser, wg, jobClosed, results, resClosed, mainPc,
                   feederPc, closerPc, wpc, wjob, wout, allMatches>>

\* The feeder: jobQueue <- f, blocking while the buffer is full.
FeedSend ==
    /\ feederPc = "feed"
    /\ ~panicked
    /\ fed < Len(files)
    /\ Len(jobQueue) < ChanCap
    /\ jobQueue' = Append(jobQueue, files[fed + 1])
    /\ fed' = fed + 1
    /\ panicked' = jobClosed
    /\ UNCHANGED <<params, outside, workerCount, wparser, wg, jobClosed, results, resClosed, mainPc,
                   feederPc, closerPc, wpc, wjob, wout, allMatches>>

\* The feeder: close(jobQueue) after the loop.
FeedClose ==
    /\ feederPc = "feed"
    /\ ~panicked
    /\ fed = Len(files)
    /\ jobClosed' = TRUE
    /\ panicked' = jobClosed
    /\ feederPc' = "done"
    /\ UNCHANGED <<params, outside, workerCount, wparser, wg, jobQueue, results, resClosed, mainPc,
                   fed, closerPc, wpc, wjob, wout, allMatches>>

\* A worker that reads the head of the queue and leaves it there.
WorkerRecvPeek(w) ==
    /\ wpc[w] = "recv"
    /\ ~panicked
    /\ jobQueue # <<>>
    /\ wjob' = [wjob EXCEPT ![w] = <<Head(jobQueue)>>]
    /\ jobQueue' = jobQueue
    /\ wpc' = [wpc EXCEPT ![w] = "parse"]
    /\ UNCHANGED <<params, outside, workerCount, wparser, wg, jobClosed, results, resClosed, panicked,
                   mainPc, feederPc, fed, closerPc, wout, allMatches>>

\* A worker: `for job := range jobQueue` receives a job.
WorkerRecv(w) ==
    /\ wpc[w] = "recv"
    /\ ~panicked
    /\ jobQueue # <<>>
    /\ wjob' = [wjob EXCEPT ![w] = <<Head(jobQueue)>>]
    /\ jobQueue' = Tail(jobQueue)
    /\ wpc' = [wpc EXCEPT ![w] = "parse"]
    /\ UNCHANGED <<params, outside, workerCount, wparser, wg, jobClosed, results, resClosed, panicked,
                   mainPc, feederPc, fed, closerPc, wout, allMatches>>

\* A worker that leaves without wg.Done().
WorkerExitNoDone(w) ==
    /\ wpc[w] = "recv"
    /\ ~panicked
    /\ jobQueue = <<>>
    /\ jobClosed
    /\ wpc' = [wpc EXCEPT ![w] = "exit"]
    /\ UNCHANGED <<params, outside, workerCount, wparser, wg, jobQueue, jobClosed, results,
                   resClosed, panicked, mainPc, feederPc, fed, closerPc, wjob, wout,
                   allMatches>>

\* A worker: the range loop ends on the closed, drained queue; the deferred
\* wg.Done() runs.
WorkerExit(w) ==
    /\ wpc[w] = "recv"
    /\ ~panicked
    /\ jobQueue = <<>>
    /\ jobClosed
    /\ wg' = wg - 1
    /\ wpc' = [wpc EXCEPT ![w] = "exit"]
    /\ UNCHANGED <<params, outside, workerCount, wparser, jobQueue, jobClosed, results, resClosed,
                   panicked, mainPc, feederPc, fed, closerPc, wjob, wout, allMatches>>

\* What worker w's current job yields: nothing when parseFile fails,
\* otherwise the results of the per-file body.
ParseOut(w) ==
    IF Readable(wjob[w][1].content)
    THEN Process(kind, wjob[w][1], visibility, includeSource, maxSourceLines,
                 symbolName, includeContext)
    ELSE <<>>

\* A worker that returns, instead of continuing, when parseFile fails.
WorkerParseAbort(w) ==
    /\ wpc[w] = "parse"
    /\ ~panicked
    /\ wout' = [wout EXCEPT ![w] = ParseOut(w)]
    /\ wpc' = [wpc EXCEPT ![w] = IF ~Readable(wjob[w][1].content) THEN "exit"
                                 ELSE IF ParseOut(w) = <<>> THEN "recv" ELSE "send"]
    /\ wg' = IF ~Readable(wjob[w][1].content) THEN wg - 1 ELSE wg
    /\ wjob' = [wjob EXCEPT ![w] = IF ParseOut(w) = <<>> THEN <<>> ELSE @]
    /\ UNCHANGED <<params, outside, workerCount, wparser, jobQueue, jobClosed, results, resClosed,
                   panicked, mainPc, feederPc, fed, closerPc, allMatches>>

\* A worker: p.parseFile, then (on success) query.run and the per-file body.
\* A failed read is `continue`: nothing is sent and the next job is awaited.
\* On a file whose parse never returns the step never happens.
WorkerParse(w) ==
    /\ wpc[w] = "parse"
    /\ ~panicked
    /\ ~Hangs(wjob[w][1].content)
    /\ wout' = [wout EXCEPT ![w] = ParseOut(w)]
    /\ wpc' = [wpc EXCEPT ![w] = IF ParseOut(w) = <<>> THEN "recv" ELSE "send"]
    /\ wjob' = [wjob EXCEPT ![w] = IF ParseOut(w) = <<>> THEN <<>> ELSE @]
    /\ UNCHANGED <<params, outside, workerCount, wparser, wg, jobQueue, jobClosed, results, resClosed,
                   panicked, mainPc, feederPc, fed, closerPc, allMatches>>

\* A worker that sends the results of a file from the last to the first.
WorkerSendLast(w) ==
    /\ wpc[w] = "send"
    /\ ~panicked
    /\ Len(results) < ChanCap
    /\ results' = Append(results, wout[w][Len(wout[w])])
    /\ panicked' = resClosed
    /\ wout' = [wout EXCEPT ![w] = SubSeq(@, 1, Len(@) - 1)]
    /\ wpc' = [wpc EXCEPT ![w] = IF Len(wout[w]) = 1 THEN "recv" ELSE "send"]
    /\ wjob' = [wjob EXCEPT ![w] = IF Len(wout[w]) = 1 THEN <<>> ELSE @]
    /\ UNCHANGED <<params, outside, workerCount, wparser, wg, jobQueue, jobClosed, resClosed, mainPc,
                   feederPc, fed, closerPc, allMatches>>

\* A worker that does not wait for room in the result channel: a result that
\* finds the buffer full is dropped.
WorkerSendDrop(w) ==
    /\ wpc[w] = "send"
    /\ ~panicked
    /\ results' = IF Len(results) < ChanCap THEN Append(results, Head(wout[w])) ELSE results
    /\ panicked' = resClosed
    /\ wout' = [wout EXCEPT ![w] = Tail(@)]
    /\ wpc' = [wpc EXCEPT ![w] = IF Tail(wout[w]) = <<>> THEN "recv" ELSE "send"]
    /\ wjob' = [wjob EXCEPT ![w] = IF Tail(wout[w]) = <<>> THEN <<>> ELSE @]
    /\ UNCHANGED <<params, outside, workerCount, wparser, wg, jobQueue, jobClosed, resClosed, mainPc,
                   feederPc, fed, closerPc, allMatches>>

\* A worker: results <- m, blocking while the buffer is full.
WorkerSend(w) ==
    /\ wpc[w] = "send"
    /\ ~panicked
    /\ Len(results) < ChanCap
    /\ results' = Append(results, Head(wout[w]))
    /\ panicked' = resClosed
    /\ wout' = [wout EXCEPT ![w] = Tail(@)]
    /\ wpc' = [wpc EXCEPT ![w] = IF Tail(wout[w]) = <<>> THEN "recv" ELSE "send"]
    /\ wjob' = [wjob EXCEPT ![w] = IF Tail(wout[w]) = <<>> THEN <<>> ELSE @]
    /\ UNCHANGED <<params, outside, workerCount, wparser, wg, jobQueue, jobClosed, resClosed, mainPc,
                   feederPc, fed, closerPc, allMatches>>

\* A closer that does not wait for the workers.
CloserWaitEager ==
    /\ closerPc = "wait"
    /\ ~panicked
    /\ closerPc' = "close"
    /\ UNCHANGED <<params, outside, workerCount, wparser, wg, jobQueue, jobClosed, results, resClosed,
                   panicked, mainPc, feederPc, fed, wpc, wjob, wout, allMatches>>

\* The closer: wg.Wait() returns once the counter is zero.
CloserWait ==
    /\ closerPc = "wait"
    /\ ~panicked
    /\ wg = 0
    /\ closerPc' = "close"
    /\ UNCHANGED <<params, outside, workerCount, wparser, wg, jobQueue, jobClosed, results, resClosed,
                   panicked, mainPc, feederPc, fed, wpc, wjob, wout, allMatches>>

\* The closer: close(results).
CloserClose ==
    /\ closerPc = "close"
    /\ ~panicked
    /\ resClosed' = TRUE
    /\ panicked' = resClosed
    /\ closerPc' = "done"
    /\ UNCHANGED <<params, outside, workerCount, wparser, wg, jobQueue, jobClosed, results, mainPc,
                   feederPc, fed, wpc, wjob, wout, allMatches>>

\* A caller that begins to collect only when the result channel is closed.
DrainAfterClose ==
    /\ mainPc = "drain"
    /\ ~panicked
    /\ resClosed
    /\ results # <<>>
    /\ allMatches' = Append(allMatches, Head(results))
    /\ results' = Tail(results)
    /\ UNCHANGED <<params, outside, workerCount, wparser, wg, jobQueue, jobClosed, resClosed,
                   panicked, mainPc, feederPc, fed, closerPc, wpc, wjob, wout>>

\* The caller: `for match := range results` receives and appends.
Drain ==
    /\ mainPc = "drain"
    /\ ~panicked
    /\ results # <<>>
    /\ allMatches' = Append(allMatches, Head(results))
    /\ results' = Tail(results)
    /\ UNCHANGED <<params, outside, workerCount, wparser, wg, jobQueue, jobClosed, resClosed, panicked,
                   mainPc, feederPc, fed, closerPc, wpc, wjob, wout>>

\* A caller that stops draining as soon as the result channel is empty.
ReturnEarly ==
    /\ mainPc = "drain"
    /\ ~panicked
    /\ results = <<>>
    /\ mainPc' = "done"
    /\ UNCHANGED <<params, outside, workerCount, wparser, wg, jobQueue, jobClosed, results,
                   resClosed, panicked, feederPc, fed, closerPc, wpc, wjob, wout, allMatches>>

\* The caller: the range loop ends on the closed, drained channel; return.
Return ==
    /\ mainPc = "drain"
    /\ ~panicked
    /\ results = <<>>
    /\ resClosed
    /\ mainPc' = "done"
    /\ UNCHANGED <<params, outside, workerCount, wparser, wg, jobQueue, jobClosed, results, resClosed,
                   panicked, feederPc, fed, closerPc, wpc, wjob, wout, allMatches>>

WorkerStep(w) == WorkerRecv(w) \/ WorkerExit(w) \/ WorkerParse(w) \/ WorkerSend(w)

Next ==
    \/ Call
    \/ Start
    \/ FeedSend
    \/ FeedClose
    \/ \E w \in Workers : WorkerStep(w)
    \/ CloserWait
    \/ CloserClose
    \/ Drain
    \/ Return

Spec == Init /\ [][Next]_vars

\* The contents of the lists with a hanging file: the unreadable file, the
\* file with two matches, and the file whose parse never returns.
HangContents == {1, 3, 7}

\* A call of the query dispatcher on a list in which at most one file is one
\* whose parse never returns.
CallHang ==
    /\ mainPc = "idle"
    /\ \E n \in 0..MaxFiles, j \in JobsRange :
         \E cs \in [1..n -> HangContents] :
            /\ Cardinality({i \in 1..n : Hangs(cs[i])}) <= 1
            /\ kind' = "query"
            /\ files' = [i \in 1..n |-> FileJob(i, cs[i])]
            /\ jobs' = j
    /\ mainPc' = "start"
    /\ UNCHANGED <<outside, visibility, includeSource, maxSourceLines, symbolName, includeContext,
                   workerCount, wparser, wg, jobQueue, jobClosed, results, resClosed, panicked,
                   feederPc, fed, closerPc, wpc, wjob, wout, allMatches>>

NextHang ==
    \/ CallHang
    \/ Start
    \/ FeedSend
    \/ FeedClose
    \/ \E w \in Workers : WorkerStep(w)
    \/ CloserWait
    \/ CloserClose
    \/ Drain
    \/ Return

\* The dispatcher on lists that may hold a hanging file, under the fairness
\* of the scheduler: while some goroutine can take a step, one is taken.
FairSpecHang == Init /\ [][NextHang]_vars /\ WF_vars(NextHang)

\* The Go scheduler never leaves every runnable goroutine waiting: while some
\* goroutine can take a step, a step is eventually taken.  (Fairness to each
\* goroutine separately implies it.)
Fairness == WF_vars(Next)

FairSpec == Init /\ [][Next]_vars /\ Fairness

-----------------------------------------------------------------------------
(* The same dispatcher called a second time on the unchanged file list.      *)

\* The caller keeps the first result (up to order) and calls again, with any
\* worker count; make(chan) and the WaitGroup are fresh.
Rerun ==
    /\ mainPc = "done"
    /\ runNo = 1
    /\ firstRun' = SeqToBag(allMatches)
    /\ runNo' = 2
    /\ \E j \in JobsRange : jobs' = j
    /\ workerCount' = 0
    /\ wparser' = [w \in Workers |-> 0]
    /\ wg' = 0
    /\ jobQueue' = <<>>
    /\ jobClosed' = FALSE
    /\ results' = <<>>
    /\ resClosed' = FALSE
    /\ mainPc' = "start"
    /\ feederPc' = "idle"
    /\ fed' = 0
    /\ closerPc' = "idle"
    /\ wpc' = [w \in Workers |-> "idle"]
    /\ wjob' = [w \in Workers |-> <<>>]
    /\ wout' = [w \in Workers |-> <<>>]
    /\ allMatches' = <<>>
    /\ UNCHANGED <<kind, files, visibility, includeSource, maxSourceLines, symbolName,
                   includeContext, panicked, cpc, cmatch, csym, coutline, refVars, aggVars, textVars>>

NextTwice == Next \/ Rerun

SpecTwice == Init /\ [][NextTwice]_vars

-----------------------------------------------------------------------------
(* The projections applied to single matches.                                *)

\* Longest capture list of a match handed to a projection.
MaxCaps == 3

\* Captures a match of queries/go/symbols.scm can carry.  The type_def
\* captures are a struct_type, an interface_type and a type_identifier node.
\* The names are F, g,
\* the empty name, and the two-byte names U+00C9 (upper-case E acute, bytes
\* C3 89) and U+00E9 (lower-case e acute, bytes C3 A9).
SymbolSamples ==
    {Cap("const", <<99, 111, 110, 115, 116, 95, 100, 101, 99, 108, 97, 114, 97, 116, 105, 111, 110>>, <<99, 111, 110, 115, 116, 32, 70, 32, 105, 110, 116, 61, 49>>, Rng(1, 1, 1, 14)),
     Cap("var", <<118, 97, 114, 95, 100, 101, 99, 108, 97, 114, 97, 116, 105, 111, 110>>, <<118, 97, 114, 32, 70, 32, 105, 110, 116>>, Rng(2, 1, 2, 10)),
     Cap("function", <<102, 117, 110, 99, 116, 105, 111, 110, 95, 100, 101, 99, 108, 97, 114, 97, 116, 105, 111, 110>>, <<102, 117, 110, 99, 32, 70, 40, 41, 123, 125>>, Rng(3, 1, 3, 11)),
     Cap("method", <<109, 101, 116, 104, 111, 100, 95, 100, 101, 99, 108, 97, 114, 97, 116, 105, 111, 110>>, <<102, 117, 110, 99, 32, 40, 114, 32, 42, 84, 41, 32, 70, 40, 41, 123, 125>>, Rng(4, 1, 4, 18)),
     Cap("type", <<116, 121, 112, 101, 95, 100, 101, 99, 108, 97, 114, 97, 116, 105, 111, 110>>, <<116, 121, 112, 101, 32, 70, 32, 115, 116, 114, 117, 99, 116, 123, 125>>, Rng(5, 1, 5, 16)),
     Cap("type", <<116, 121, 112, 101, 95, 105, 100, 101, 110, 116, 105, 102, 105, 101, 114>>, <<105, 110, 116>>, Rng(1, 9, 1, 12)),
     Cap("type_def", <<115, 116, 114, 117, 99, 116, 95, 116, 121, 112, 101>>, <<115, 116, 114, 117, 99, 116, 123, 125>>, Rng(5, 8, 5, 16)),
     Cap("type_def", <<105, 110, 116, 101, 114, 102, 97, 99, 101, 95, 116, 121, 112, 101>>, <<105, 110, 116, 101, 114, 102, 97, 99, 101, 123, 125>>, Rng(6, 8, 6, 19)),
     Cap("type_def", <<116, 121, 112, 101, 95, 105, 100, 101, 110, 116, 105, 102, 105, 101, 114>>, <<105, 110, 116>>, Rng(7, 8, 7, 11)),
     Cap("name", <<105, 100, 101, 110, 116, 105, 102, 105, 101, 114>>, <<70>>, Rng(1, 7, 1, 8)),
     Cap("name", <<105, 100, 101, 110, 116, 105, 102, 105, 101, 114>>, <<103>>, Rng(2, 5, 2, 6)),
     Cap("name", <<105, 100, 101, 110, 116, 105, 102, 105, 101, 114>>, <<>>, Rng(3, 6, 3, 6)),
     Cap("name", <<105, 100, 101, 110, 116, 105, 102, 105, 101, 114>>, <<195, 137>>, Rng(1, 7, 1, 8)),
     Cap("name", <<105, 100, 101, 110, 116, 105, 102, 105, 101, 114>>, <<195, 169>>, Rng(2, 5, 2, 6)),
     Cap("receiver", <<112, 97, 114, 97, 109, 101, 116, 101, 114, 95, 108, 105, 115, 116>>, <<40, 114, 32, 42, 84, 41>>, Rng(4, 6, 4, 12)),
     Cap("params", <<112, 97, 114, 97, 109, 101, 116, 101, 114, 95, 108, 105, 115, 116>>, <<40, 41>>, Rng(3, 7, 3, 9)),
     Cap("result", <<116, 121, 112, 101, 95, 105, 100, 101, 110, 116, 105, 102, 105, 101, 114>>, <<105, 110, 116>>, Rng(3, 10, 3, 13)),
     Cap("receiver", <<112, 97, 114, 97, 109, 101, 116, 101, 114, 95, 108, 105, 115, 116>>, <<40, 115, 32, 83, 41>>, Rng(8, 6, 8, 11)),
     Cap("params", <<112, 97, 114, 97, 109, 101, 116, 101, 114, 95, 108, 105, 115, 116>>, <<40, 120, 32, 105, 110, 116, 41>>, Rng(8, 13, 8, 20))}

\* Captures a match of queries/go/outline.scm can carry.
OutlineSamples ==
    {Cap("package", <<112, 97, 99, 107, 97, 103, 101, 95, 105, 100, 101, 110, 116, 105, 102, 105, 101, 114>>, <<112>>, Rng(1, 9, 1, 10)),
     Cap("path", <<105, 110, 116, 101, 114, 112, 114, 101, 116, 101, 100, 95, 115, 116, 114, 105, 110, 103, 95, 108, 105, 116, 101, 114, 97, 108>>, <<34, 102, 109, 116, 34>>, Rng(2, 8, 2, 13)),
     Cap("function", <<102, 117, 110, 99, 116, 105, 111, 110, 95, 100, 101, 99, 108, 97, 114, 97, 116, 105, 111, 110>>, <<102, 117, 110, 99, 32, 70, 40, 41, 123, 125>>, Rng(3, 1, 3, 11)),
     Cap("func_name", <<105, 100, 101, 110, 116, 105, 102, 105, 101, 114>>, <<70>>, Rng(3, 6, 3, 7)),
     Cap("func_name", <<105, 100, 101, 110, 116, 105, 102, 105, 101, 114>>, <<>>, Rng(3, 6, 3, 6)),
     Cap("func_name", <<105, 100, 101, 110, 116, 105, 102, 105, 101, 114>>, <<195, 169>>, Rng(3, 6, 3, 7)),
     Cap("method", <<109, 101, 116, 104, 111, 100, 95, 100, 101, 99, 108, 97, 114, 97, 116, 105, 111, 110>>, <<102, 117, 110, 99, 32, 40, 114, 32, 42, 84, 41, 32, 77, 40, 41, 123, 125>>, Rng(4, 1, 4, 18)),
     Cap("method_name", <<102, 105, 101, 108, 100, 95, 105, 100, 101, 110, 116, 105, 102, 105, 101, 114>>, <<77>>, Rng(4, 13, 4, 14)),
     Cap("struct", <<116, 121, 112, 101, 95, 100, 101, 99, 108, 97, 114, 97, 116, 105, 111, 110>>, <<116, 121, 112, 101, 32, 84, 32, 115, 116, 114, 117, 99, 116, 123, 125>>, Rng(5, 1, 5, 16)),
     Cap("type_name", <<116, 121, 112, 101, 95, 105, 100, 101, 110, 116, 105, 102, 105, 101, 114>>, <<84>>, Rng(5, 6, 5, 7)),
     Cap("type_alias", <<116, 121, 112, 101, 95, 100, 101, 99, 108, 97, 114, 97, 116, 105, 111, 110>>, <<116, 121, 112, 101, 32, 84, 32, 105, 110, 116>>, Rng(6, 1, 6, 11)),
     Cap("const", <<99, 111, 110, 115, 116, 95, 100, 101, 99, 108, 97, 114, 97, 116, 105, 111, 110>>, <<99, 111, 110, 115, 116, 32, 99, 61, 49>>, Rng(7, 1, 7, 10)),
     Cap("const_name", <<105, 100, 101, 110, 116, 105, 102, 105, 101, 114>>, <<99>>, Rng(7, 7, 7, 8))}

\* The capture lists of at most MaxCaps captures over a set of samples.
CaptureLists(samples) == UNION {[1..n -> samples] : n \in 0..MaxCaps}

\* The captures of the parts of a function or method declaration.
PartSamples == {c \in SymbolSamples : c.name \in {"name", "receiver", "params", "result"}}

\* The capture lists of a function or method declaration: the capture of the
\* declaration, then MaxCaps captures of its parts.
FuncLists ==
    {<<d>> \o ps : d \in {c \in SymbolSamples : c.name \in {"function", "method"}},
                   ps \in [1..MaxCaps -> PartSamples]}

\* One call of parseSymbolFromMatch on one match.
ClassifySymbol ==
    /\ cpc = "idle"
    /\ \E caps \in CaptureLists(SymbolSamples) \cup FuncLists, inc \in BOOLEAN, ml \in {0, 1} :
         /\ cmatch' = Match(1, 0, caps)
         /\ includeSource' = inc
         /\ maxSourceLines' = ml
         /\ csym' = parseSymbolFromMatch(Match(1, 0, caps), inc, ml)
    /\ cpc' = "symbol"
    /\ UNCHANGED <<kind, files, jobs, visibility, symbolName, includeContext, workerCount, wparser,
                   wg, jobQueue, jobClosed, results, resClosed, panicked, mainPc, feederPc,
                   fed, closerPc, wpc, wjob, wout, allMatches, runNo, firstRun, coutline,
                   refVars, aggVars, textVars>>

\* The sample capture of a name that has one sample.
OutlineSample(n) == CHOOSE c \in OutlineSamples : c.name = n

\* A capture list that holds a declaration of a type category with its name
\* and a const declaration with its name.
MixedDecl ==
    <<OutlineSample("type_alias"), OutlineSample("type_name"),
      OutlineSample("const"), OutlineSample("const_name")>>

\* One call of buildOutline on the matches of one file (here one match).
BuildOutline ==
    /\ cpc = "idle"
    /\ \E caps \in CaptureLists(OutlineSamples) \cup {MixedDecl}, inc \in BOOLEAN, ml \in {0, 1} :
         /\ cmatch' = Match(1, 0, caps)
         /\ includeSource' = inc
         /\ maxSourceLines' = ml
         /\ coutline' = buildOutline(1, <<Match(1, 0, caps)>>, inc, ml)
    /\ cpc' = "outline"
    /\ UNCHANGED <<kind, files, jobs, visibility, symbolName, includeContext, workerCount, wparser,
                   wg, jobQueue, jobClosed, results, resClosed, panicked, mainPc, feederPc,
                   fed, closerPc, wpc, wjob, wout, allMatches, runNo, firstRun, csym,
                   refVars, aggVars, textVars>>

\* The file of the reference search of a name that occurs once called and
\* once as a type annotation.
ScenarioC == FileJob(1, 5)

TxtFoo == <<70, 111, 111>>

\* The search terms: Foo, and foo (the same letters in another case).
Terms == {TxtFoo, <<102, 111, 111>>}

\* The source the references are searched in, three lines:
\*     var x Foo=Foo()
\*     <tab>foo(Foo.Foo,Foo)<space>
\*     <space><space>Fo{};Fooo:=Foo{};Foo:=1
\* Its first line is the file of ScenarioC.
RefText ==
    SourceOf(ScenarioC.content)
    \o <<10, 9, 102, 111, 111, 40, 70, 111, 111, 46, 70, 111, 111, 44, 70, 111, 111, 41, 32>>
    \o <<10, 32, 32, 70, 111, 123, 125, 59, 70, 111, 111, 111, 58, 61, 70, 111, 111, 123, 125, 59,
         70, 111, 111, 58, 61, 49>>

\* Captures a match of queries/go/refs.scm can carry on RefText: each capture
\* name of the query on the text Foo, and captures whose text differs from Foo
\* by case (foo), by being a proper prefix of it (Fo) and by having it as a
\* proper prefix (Fooo).
RefSamples ==
    {Cap("call", <<105, 100, 101, 110, 116, 105, 102, 105, 101, 114>>, <<70, 111, 111>>, Rng(1, 11, 1, 14)),
     Cap("call", <<105, 100, 101, 110, 116, 105, 102, 105, 101, 114>>, <<102, 111, 111>>, Rng(2, 2, 2, 5)),
     Cap("receiver", <<105, 100, 101, 110, 116, 105, 102, 105, 101, 114>>, <<70, 111, 111>>, Rng(2, 14, 2, 17)),
     Cap("type_ref", <<116, 121, 112, 101, 95, 105, 100, 101, 110, 116, 105, 102, 105, 101, 114>>, <<70, 111, 111>>, Rng(1, 7, 1, 10)),
     Cap("type_ref", <<116, 121, 112, 101, 95, 105, 100, 101, 110, 116, 105, 102, 105, 101, 114>>, <<70, 111>>, Rng(3, 3, 3, 5)),
     Cap("ident", <<105, 100, 101, 110, 116, 105, 102, 105, 101, 114>>, <<70, 111, 111>>, Rng(1, 11, 1, 14)),
     Cap("ident", <<105, 100, 101, 110, 116, 105, 102, 105, 101, 114>>, <<70, 111, 111, 111>>, Rng(3, 8, 3, 12)),
     Cap("operand", <<105, 100, 101, 110, 116, 105, 102, 105, 101, 114>>, <<70, 111, 111>>, Rng(2, 6, 2, 9)),
     Cap("field", <<102, 105, 101, 108, 100, 95, 105, 100, 101, 110, 116, 105, 102, 105, 101, 114>>, <<70, 111, 111>>, Rng(2, 10, 2, 13)),
     Cap("composite_type", <<116, 121, 112, 101, 95, 105, 100, 101, 110, 116, 105, 102, 105, 101, 114>>, <<70, 111, 111>>, Rng(3, 14, 3, 17)),
     Cap("short_var", <<105, 100, 101, 110, 116, 105, 102, 105, 101, 114>>, <<70, 111, 111>>, Rng(3, 20, 3, 23))}

\* The match lists handed to findReferences: no match, one match of at most
\* MaxCaps captures, two matches of one capture each, and what the engine
\* yields on the file of ScenarioC.
RefMatchLists ==
    {<<>>}
    \cup {<<Match(1, 0, caps)>> : caps \in CaptureLists(RefSamples)}
    \cup {<<Match(1, 0, <<c1>>), Match(1, 1, <<c2>>)>> : c1 \in RefSamples, c2 \in RefSamples}
    \cup {QueryRun("refs", ScenarioC)}

\* One call of findReferences on the matches of one file.
FindRefs ==
    /\ cpc = "idle"
    /\ \E ms \in RefMatchLists, term \in Terms, ctx \in BOOLEAN :
         /\ cmatches' = ms
         /\ symbolName' = term
         /\ includeContext' = ctx
         /\ crefs' = findReferences(ms, RefText, term, ctx)
    /\ cpc' = "refs"
    /\ UNCHANGED <<kind, files, jobs, visibility, includeSource, maxSourceLines, workerCount, wparser,
                   wg, jobQueue, jobClosed, results, resClosed, panicked, mainPc, feederPc,
                   fed, closerPc, wpc, wjob, wout, allMatches, runNo, firstRun, cmatch,
                   csym, coutline, aggVars, textVars>>

NextClassify == ClassifySymbol \/ BuildOutline \/ FindRefs

SpecClassify == Init /\ [][NextClassify]_vars

-----------------------------------------------------------------------------
(* The text functions applied to single texts.                               *)

\* Longest text handed to a text function.
MaxText == 6

\* The bytes of receiver texts: "(", ")", "*", space, "r", "T".
ReceiverBytes == {40, 41, 42, 32, 114, 84}

\* The bytes of source texts: LF, "a", ".".
SourceBytes == {10, 97, 46}

Texts(bytes) == UNION {[1..n -> bytes] : n \in 0..MaxText}

\* The values of maxLines.
MaxLinesRange == -1..3

\* One call of extractReceiverType.
CallExtractReceiverType ==
    /\ cpc = "idle"
    /\ \E t \in Texts(ReceiverBytes) :
         /\ utext' = t
         /\ uout' = extractReceiverType(t)
    /\ cpc' = "receiver"
    /\ UNCHANGED <<params, pool, mainPc, runNo, firstRun, cmatch, csym, coutline, refVars,
                   umax, aggVars>>

\* One call of truncateSource.
CallTruncateSource ==
    /\ cpc = "idle"
    /\ \E t \in Texts(SourceBytes), n \in MaxLinesRange :
         /\ utext' = t
         /\ umax' = n
         /\ uout' = truncateSource(t, n)
    /\ cpc' = "truncate"
    /\ UNCHANGED <<params, pool, mainPc, runNo, firstRun, cmatch, csym, coutline, refVars,
                   aggVars>>

\* truncateSource called on its own result, with the same maxLines.
CallTruncateAgain ==
    /\ cpc = "truncate"
    /\ utext' = uout
    /\ uout' = truncateSource(uout, umax)
    /\ cpc' = "again"
    /\ UNCHANGED <<params, pool, mainPc, runNo, firstRun, cmatch, csym, coutline, refVars,
                   umax, aggVars>>

NextText == CallExtractReceiverType \/ CallTruncateSource \/ CallTruncateAgain

SpecText == Init /\ [][NextText]_vars

-----------------------------------------------------------------------------
(* The aggregators: Query, Symbols, Outline, Refs.                           *)

\* runtime.NumCPU() of the machine of the model.
NumCPU == 2

\* opts.MaxBytes = 2 * 1024 * 1024
DefaultMaxBytes == 2097152

\* opts.MaxSourceLines = 10 (Symbols)
DefaultSymbolsLines == 10

\* opts.MaxSourceLines = 5 (Outline)
DefaultOutlineLines == 5

\* An entry the walk of a directory meets, in walk order: the content of the
\* file, the size the file system reports for it, whether its extension is
\* one of the language's, whether it lies under a directory with an ignored
\* name (the walk skips that directory), whether d.Info() fails on it, and
\* whether the walk reports an error for it.
Entry(c, sz, sup, ign, se, we) ==
    [content |-> c, size |-> sz, supported |-> sup, ignored |-> ign, statErr |-> se,
     walkErr |-> we]

\* The directories of the model.
\*   1  an empty directory
\*   2  big.go (3,000,000 bytes: the text of content 3 and a long comment),
\*      small.go (content 4, 9 bytes)
\*   3  funcs.go (content 3, 21 bytes), pkg.go (content 2, 9 bytes),
\*      notes.txt (an unsupported extension)
\*   4  gone.go (unreadable, 5 bytes), vendor/dep.go (under an ignored name),
\*      raced.go (content 2; d.Info() fails on it)
\*   5  main.go (content 3), then an entry the walk cannot read
Dirs ==
    << <<>>,
       <<Entry(3, 3000000, TRUE, FALSE, FALSE, FALSE), Entry(4, 9, TRUE, FALSE, FALSE, FALSE)>>,
       <<Entry(3, 21, TRUE, FALSE, FALSE, FALSE), Entry(2, 9, TRUE, FALSE, FALSE, FALSE),
         Entry(3, 21, FALSE, FALSE, FALSE, FALSE)>>,
       <<Entry(1, 5, TRUE, FALSE, FALSE, FALSE), Entry(3, 21, TRUE, TRUE, FALSE, FALSE),
         Entry(2, 9, TRUE, FALSE, TRUE, FALSE)>>,
       <<Entry(3, 21, TRUE, FALSE, FALSE, FALSE), Entry(2, 9, TRUE, FALSE, FALSE, TRUE)>> >>

\* A walk that passes over an entry it cannot read.
RECURSIVE WalkAbsorbs(_, _, _, _)
WalkAbsorbs(dir, i, maxBytes, found) ==
    IF i > Len(dir) THEN [err |-> "", jobs |-> found]
    ELSE IF dir[i].ignored THEN WalkAbsorbs(dir, i + 1, maxBytes, found)
    ELSE IF dir[i].walkErr THEN WalkAbsorbs(dir, i + 1, maxBytes, found)
    ELSE IF ~dir[i].supported THEN WalkAbsorbs(dir, i + 1, maxBytes, found)
    ELSE IF maxBytes > 0 /\ dir[i].statErr THEN WalkAbsorbs(dir, i + 1, maxBytes, found)
    ELSE IF maxBytes > 0 /\ dir[i].size > maxBytes THEN WalkAbsorbs(dir, i + 1, maxBytes, found)
    ELSE WalkAbsorbs(dir, i + 1, maxBytes, Append(found, FileJob(i, dir[i].content)))

\* A walk that also skips a file whose size equals the ceiling.
RECURSIVE WalkStrict(_, _, _, _)
WalkStrict(dir, i, maxBytes, found) ==
    IF i > Len(dir) THEN [err |-> "", jobs |-> found]
    ELSE IF dir[i].ignored THEN WalkStrict(dir, i + 1, maxBytes, found)
    ELSE IF dir[i].walkErr THEN [err |-> "walk", jobs |-> <<>>]
    ELSE IF ~dir[i].supported THEN WalkStrict(dir, i + 1, maxBytes, found)
    ELSE IF maxBytes > 0 /\ dir[i].statErr THEN WalkStrict(dir, i + 1, maxBytes, found)
    ELSE IF maxBytes > 0 /\ dir[i].size >= maxBytes THEN WalkStrict(dir, i + 1, maxBytes, found)
    ELSE WalkStrict(dir, i + 1, maxBytes, Append(found, FileJob(i, dir[i].content)))

\* The callback of filepath.WalkDir on entry i, and the rest of the walk: an
\* entry under an ignored directory is never visited; an error of the walk
\* ends it; an unsupported extension, a failing d.Info() and (for a positive
\* ceiling) a size above the ceiling skip the file; otherwise a FileJob is
\* appended.  The display path of a job is the position of its entry.
RECURSIVE Walk(_, _, _, _)
Walk(dir, i, maxBytes, found) ==
    IF i > Len(dir) THEN [err |-> "", jobs |-> found]
    ELSE IF dir[i].ignored THEN Walk(dir, i + 1, maxBytes, found)
    ELSE IF dir[i].walkErr THEN [err |-> "walk", jobs |-> <<>>]
    ELSE IF ~dir[i].supported THEN Walk(dir, i + 1, maxBytes, found)
    ELSE IF maxBytes > 0 /\ dir[i].statErr THEN Walk(dir, i + 1, maxBytes, found)
    ELSE IF maxBytes > 0 /\ dir[i].size > maxBytes THEN Walk(dir, i + 1, maxBytes, found)
    ELSE Walk(dir, i + 1, maxBytes, Append(found, FileJob(i, dir[i].content)))

\* scanner.collect
collect(dir, maxBytes) == Walk(dir, 1, maxBytes, <<>>)

\* The files a caller can name in opts.File, by the number of their content:
\*   1  gone.go         unreadable, 5 bytes
\*   2  pkg.txt         package p, an extension that is not the language's
\*   3  funcs.go        21 bytes, above both small ceilings of the model
\*   6  vendor/long.go  21 bytes, in a directory with an ignored name
Named(file) ==
    CASE file = 1 -> Entry(1, 5, TRUE, FALSE, FALSE, FALSE)
      [] file = 2 -> Entry(2, 9, FALSE, FALSE, FALSE, FALSE)
      [] file = 3 -> Entry(3, 21, TRUE, FALSE, FALSE, FALSE)
      [] file = 6 -> Entry(6, 21, TRUE, TRUE, FALSE, FALSE)

\* scanner.collectSingle: the file is not looked at.
collectSingle(file) == FileJob(1, Named(file).content)

Aggregators == {"Query", "Symbols", "Refs", "Outline"}

\* Query texts: empty, one that compiles, one that does not.
QueryTexts == {"", "ok", "bad"}

\* Language names: unset, the registered language, an unregistered one.
LanguageNames == {"", "go", "zz"}

\* MaxBytes: negative, unset, and two small ceilings (one equal to the size
\* of a file of the model, one a byte below the size of another).
MaxBytesRange == {-1, 0, 9, 20}

\* opts.File: 0 for "", otherwise the content of the file named.
FileArgs == {0, 1, 2, 3, 6}

\* opts.Visibility of Symbols.
Visibilities == {"", "all", "public", "private"}

\* opts.MaxSourceLines: negative, unset, and one line.
MaxSourceLinesRange == {-1, 0, 1}

\* The options a caller can pass to aggregator f.  Fields an aggregator does
\* not have are fixed.  The source options are varied with the visibility
\* left unset, and the visibility with the source options left unset.
ArgsOf(f) ==
    {a \in [query : IF f = "Query" THEN QueryTexts ELSE {"ok"},
            symbol : IF f = "Refs" THEN {<<>>, TxtF} ELSE {TxtF},
            language : LanguageNames,
            file : FileArgs,
            dir : IF f = "Outline" THEN {1} ELSE 1..Len(Dirs),
            maxBytes : IF f = "Outline" THEN {0} ELSE MaxBytesRange,
            jobs : IF f = "Outline" THEN {1} ELSE {0, 1},
            visibility : IF f = "Symbols" THEN Visibilities ELSE {""},
            includeSource : IF f \in {"Symbols", "Outline"} THEN BOOLEAN ELSE {FALSE},
            maxSourceLines : IF f \in {"Symbols", "Outline"} THEN MaxSourceLinesRange
                             ELSE {0}] :
        /\ a.includeSource => a.visibility = ""
        /\ ~a.includeSource => a.maxSourceLines = 0}

\* A return value: the error ("" for nil), whether the collection returned
\* is nil, and the collection (for Outline, the FileOutline).
Ret(e, n, v) == [err |-> e, isNil |-> n, value |-> v]

ConfigErrors == {"query is required", "symbol is required", "file is required",
                 "language not registered"}

\* The call of an aggregator.
AggCall ==
    /\ apc = "idle"
    /\ mainPc = "idle"
    /\ \E f \in Aggregators :
         \E a \in ArgsOf(f) :
            /\ fn' = f
            /\ args' = a
            /\ opts' = a
    /\ apc' = "validate"
    /\ UNCHANGED <<params, pool, mainPc, study, compiles, scans, areads, ret>>

\* An entry that applies the defaults without checking the required option.
AggValidateNoCheck ==
    /\ apc = "validate"
    /\ opts' = [opts EXCEPT
                   !.language = IF @ = "" THEN "go" ELSE @,
                   !.visibility = IF fn = "Symbols" /\ @ = "" THEN "all" ELSE @,
                   !.maxSourceLines = IF fn = "Symbols" /\ @ = 0 THEN DefaultSymbolsLines
                                      ELSE IF fn = "Outline" /\ @ = 0 THEN DefaultOutlineLines
                                      ELSE @,
                   !.jobs = IF fn # "Outline" /\ @ = 0 THEN NumCPU ELSE @,
                   !.maxBytes = IF fn # "Outline" /\ @ = 0 THEN DefaultMaxBytes ELSE @]
    /\ apc' = "lookup"
    /\ ret' = ret
    /\ UNCHANGED <<params, pool, mainPc, study, fn, args, compiles, scans, areads>>

\* The checks of the required option and the defaults, in the order of the
\* code: a missing required option returns at once; otherwise the unset
\* options are given their defaults in opts.
AggValidate ==
    /\ apc = "validate"
    /\ IF fn = "Query" /\ opts.query = ""
       THEN ret' = Ret("query is required", TRUE, <<>>) /\ apc' = "done" /\ opts' = opts
       ELSE IF fn = "Refs" /\ opts.symbol = <<>>
       THEN ret' = Ret("symbol is required", TRUE, <<>>) /\ apc' = "done" /\ opts' = opts
       ELSE IF fn = "Outline" /\ opts.file = 0
       THEN ret' = Ret("file is required", TRUE, <<>>) /\ apc' = "done" /\ opts' = opts
       ELSE /\ opts' = [opts EXCEPT
                          !.language = IF @ = "" THEN "go" ELSE @,
                          !.visibility = IF fn = "Symbols" /\ @ = "" THEN "all" ELSE @,
                          !.maxSourceLines =
                              IF fn = "Symbols" /\ @ = 0 THEN DefaultSymbolsLines
                              ELSE IF fn = "Outline" /\ @ = 0 THEN DefaultOutlineLines
                              ELSE @,
                          !.jobs = IF fn # "Outline" /\ @ = 0 THEN NumCPU ELSE @,
                          !.maxBytes = IF fn # "Outline" /\ @ = 0 THEN DefaultMaxBytes ELSE @]
            /\ apc' = "lookup"
            /\ ret' = ret
    /\ UNCHANGED <<params, pool, mainPc, study, fn, args, compiles, scans, areads>>

\* language := Get(opts.Language); nil returns an error.
AggLookup ==
    /\ apc = "lookup"
    /\ IF opts.language # "go"
       THEN ret' = Ret("language not registered", TRUE, <<>>) /\ apc' = "done"
       ELSE ret' = ret /\ apc' = "compile"
    /\ UNCHANGED <<params, pool, mainPc, study, fn, args, opts, compiles, scans, areads>>

\* A compile step that goes on to discovery whatever newQuery returns.
AggCompileNoAbort ==
    /\ apc = "compile"
    /\ compiles' = compiles + 1
    /\ ret' = ret
    /\ apc' = "scan"
    /\ UNCHANGED <<params, pool, mainPc, study, fn, args, opts, scans, areads>>

\* query, err := newQuery(...); an error returns it.
AggCompile ==
    /\ apc = "compile"
    /\ compiles' = compiles + 1
    /\ IF opts.query = "bad"
       THEN ret' = Ret("compile query", TRUE, <<>>) /\ apc' = "done"
       ELSE ret' = ret /\ apc' = "scan"
    /\ UNCHANGED <<params, pool, mainPc, study, fn, args, opts, scans, areads>>

\* A discovery that puts the named file through the checks of the walk.
DiscoveredChecked ==
    IF opts.file # 0
    THEN [err |-> "",
          jobs |-> IF \/ ~Named(opts.file).supported
                      \/ Named(opts.file).ignored
                      \/ (opts.maxBytes > 0 /\ Named(opts.file).size > opts.maxBytes)
                   THEN <<>> ELSE <<collectSingle(opts.file)>>]
    ELSE collect(Dirs[opts.dir], opts.maxBytes)

\* What discovery gives Query, Symbols and Refs: the one file of file mode,
\* or the result of the walk.
Discovered ==
    IF opts.file # 0 THEN [err |-> "", jobs |-> <<collectSingle(opts.file)>>]
    ELSE collect(Dirs[opts.dir], opts.maxBytes)

\* Query, Symbols, Refs from `var files []FileJob` to the return statement
\* that calls the dispatcher: discovery; an error of the walk returns it; an
\* empty list returns the empty collection; otherwise the dispatcher is
\* entered with the list and the options.
AggScan ==
    /\ apc = "scan"
    /\ fn # "Outline"
    /\ scans' = IF opts.file # 0 THEN scans ELSE scans + 1
    /\ files' = Discovered.jobs
    /\ IF Discovered.err # ""
       THEN /\ ret' = Ret(Discovered.err, TRUE, <<>>)
            /\ apc' = "done"
            /\ UNCHANGED <<kind, jobs, visibility, includeSource, maxSourceLines, symbolName,
                           includeContext, mainPc>>
       ELSE IF Len(Discovered.jobs) = 0
       THEN /\ ret' = Ret("", FALSE, <<>>)
            /\ apc' = "done"
            /\ UNCHANGED <<kind, jobs, visibility, includeSource, maxSourceLines, symbolName,
                           includeContext, mainPc>>
       ELSE /\ kind' = (CASE fn = "Query" -> "query" [] fn = "Symbols" -> "symbols"
                           [] OTHER -> "refs")
            /\ jobs' = opts.jobs
            /\ visibility' = opts.visibility
            /\ includeSource' = opts.includeSource
            /\ maxSourceLines' = opts.maxSourceLines
            /\ symbolName' = opts.symbol
            /\ includeContext' = FALSE
            /\ mainPc' = "start"
            /\ apc' = "dispatch"
            /\ ret' = ret
    /\ UNCHANGED <<pool, study, fn, args, opts, compiles, areads>>

\* Outline: collectSingle, which does not look at the file.
AggSingle ==
    /\ apc = "scan"
    /\ fn = "Outline"
    /\ files' = <<collectSingle(opts.file)>>
    /\ apc' = "parse"
    /\ UNCHANGED <<kind, jobs, visibility, includeSource, maxSourceLines, symbolName,
                   includeContext, pool, mainPc, study, fn, args, opts, compiles, scans,
                   areads, ret>>

\* Outline: p.parseFile, whose error is returned; then query.run and
\* buildOutline.
AggOutline ==
    /\ apc = "parse"
    /\ areads' = areads + 1
    /\ ret' = IF ~Readable(files[1].content) THEN Ret("read file", TRUE, <<>>)
              ELSE Ret("", FALSE, buildOutline(files[1].path, QueryRun("outline", files[1]),
                                               opts.includeSource, opts.maxSourceLines))
    /\ apc' = "done"
    /\ UNCHANGED <<params, pool, mainPc, study, fn, args, opts, compiles, scans>>

\* Query, Symbols, Refs: the dispatcher has returned; its result is returned
\* with a nil error.  The slice is nil when nothing was appended to it.
AggFinish ==
    /\ apc = "dispatch"
    /\ mainPc = "done"
    /\ ret' = Ret("", allMatches = <<>>, allMatches)
    /\ apc' = "done"
    /\ UNCHANGED <<params, pool, mainPc, study, fn, args, opts, compiles, scans, areads>>

NextAggregate ==
    \/ AggCall
    \/ AggValidate
    \/ AggLookup
    \/ AggCompile
    \/ AggScan
    \/ AggSingle
    \/ AggOutline
    \/ AggFinish
    \/ Start
    \/ FeedSend
    \/ FeedClose
    \/ \E w \in Workers : WorkerStep(w)
    \/ CloserWait
    \/ CloserClose
    \/ Drain
    \/ Return

SpecAggregate == Init /\ [][NextAggregate]_vars

-----------------------------------------------------------------------------
(* Properties.                                                               *)

\* What file i of the list yields on its own: nothing when it cannot be read,
\* otherwise the results of the per-file body, in engine order.
Expected(i) ==
    IF Readable(files[i].content)
    THEN Process(kind, files[i], visibility, includeSource, maxSourceLines, symbolName,
                 includeContext)
    ELSE <<>>

\* The per-file results, file after file in the order of the list.
ExpectedAll == Concat([i \in 1..Len(files) |-> Expected(i)])

AllReadable == \A i \in 1..Len(files) : Readable(files[i].content)

\* The results of file i within a returned collection, in their order there.
FromFile(s, i) == LET OfFile(m) == m.file = i IN SelectSeq(s, OfFile)

\* C1: for a non-empty list of readable files, whatever the requested worker
\* count and the interleaving, the returned collection is, as a multiset, the
\* union of what each file yields on its own: nothing lost, nothing
\* duplicated, nothing added.
C1_ResultsExactlyOnce ==
    (mainPc = "done" /\ Len(files) >= 1 /\ AllReadable)
        => SeqToBag(allMatches) = SeqToBag(ExpectedAll)

\* A call over two readable files with two workers has returned at least three
\* results, in an order that is not the sequential one.
C1_Witness ==
    /\ mainPc = "done"
    /\ Len(files) = 2
    /\ AllReadable
    /\ workerCount = 2
    /\ Len(allMatches) >= 3
    /\ allMatches # ExpectedAll

\* C2: under fair scheduling a dispatch call that has been entered always
\* returns, with more files than the job queue has slots and more results
\* than the result channel has slots included; no send or close ever meets a
\* closed channel.
C2_DispatchReturns ==
    /\ (mainPc = "start") ~> (mainPc = "done")
    /\ [](~panicked)

\* A call with more files than job-queue slots and more results than
\* result-channel slots has returned.
C2_Witness ==
    /\ mainPc = "done"
    /\ Len(files) > ChanCap
    /\ Len(allMatches) > ChanCap

\* C3: for any requested worker count, 0 and negative values included, and a
\* file list of length n >= 1, the number of workers spawned is
\* max(1, min(requested, n)), and so lies in 1..n.
C3_WorkerCountClamped ==
    (mainPc \in {"drain", "done"} /\ Len(files) >= 1)
        => /\ workerCount = Max(1, Min(jobs, Len(files)))
           /\ workerCount \in 1..Len(files)
           /\ Cardinality({w \in Workers : wpc[w] # "idle"}) = workerCount

\* A call that asked for no worker, or a negative number of workers, over two
\* files runs one worker.
C3_Witness ==
    /\ mainPc = "done"
    /\ jobs <= 0
    /\ Len(files) >= 2
    /\ workerCount = 1
    /\ Cardinality({w \in Workers : wpc[w] # "idle"}) = 1

\* C4: for an empty file list and any requested worker count, no worker is
\* spawned, the call terminates, and the result is empty.
C4_EmptyFileList ==
    /\ []((mainPc \in {"drain", "done"} /\ Len(files) = 0)
            => /\ workerCount = 0
               /\ \A w \in Workers : wpc[w] = "idle"
               /\ allMatches = <<>>)
    /\ (mainPc = "start" /\ Len(files) = 0) ~> (mainPc = "done" /\ allMatches = <<>>)

\* A call over the empty list that asked for more than one worker has returned.
C4_Witness ==
    /\ mainPc = "done"
    /\ files = <<>>
    /\ jobs > 1
    /\ allMatches = <<>>

\* C5: in a call over several files, a file that cannot be read contributes
\* nothing and changes nothing else: the worker that met the failure goes back
\* to the job queue, no other worker moves, nothing is sent or counted down,
\* every result of the other files is returned, and nothing fails.
C5_UnreadableFileSkipped ==
    /\ []((mainPc = "done" /\ Len(files) >= 2 /\ ~AllReadable)
            => /\ SeqToBag(allMatches) = SeqToBag(ExpectedAll)
               /\ \A i \in 1..Len(files) :
                     ~Readable(files[i].content) => FromFile(allMatches, i) = <<>>
               /\ ~panicked)
    /\ [][\A w \in Workers :
            (wpc[w] = "parse" /\ wpc'[w] # "parse" /\ ~Readable(wjob[w][1].content))
                => /\ wpc'[w] = "recv"
                   /\ \A v \in Workers \ {w} : wpc'[v] = wpc[v]
                   /\ results' = results
                   /\ wg' = wg
                   /\ ~panicked']_vars

\* A single worker met an unreadable first file, went on to the readable
\* second file, and the call has returned that file's results.
C5_Witness ==
    /\ mainPc = "done"
    /\ Len(files) = 2
    /\ ~Readable(files[1].content)
    /\ Readable(files[2].content)
    /\ workerCount = 1
    /\ allMatches # <<>>
    /\ allMatches = Expected(2)

C8_RepeatSetEqual ==
    (runNo = 2 /\ mainPc = "done")
        => /\ SeqToBag(allMatches) = firstRun
           /\ Elems(allMatches) = BagToSet(firstRun)

\* A second run over two files has returned at least three results.
C8_Witness ==
    /\ runNo = 2
    /\ mainPc = "done"
    /\ Len(files) = 2
    /\ Len(allMatches) >= 3
    /\ SeqToBag(allMatches) = firstRun

\* The first capture name present in the order const, var, function, method,
\* type; "none" when none of the five is present.
FirstDecl(caps) ==
    IF \E i \in 1..Len(caps) : caps[i].name = "const" THEN "const"
    ELSE IF \E i \in 1..Len(caps) : caps[i].name = "var" THEN "var"
    ELSE IF \E i \in 1..Len(caps) : caps[i].name = "function" THEN "function"
    ELSE IF \E i \in 1..Len(caps) : caps[i].name = "method" THEN "method"
    ELSE IF \E i \in 1..Len(caps) : caps[i].name = "type" THEN "type"
    ELSE "none"

\* C9: parseSymbolFromMatch classifies a match by the first capture name
\* present in the order const, var, function, method, type, and returns no
\* Symbol when none of the five is present (an empty capture list included);
\* a match with const and type is const, one with var and type is var.
C9_ClassifiedByFirstPresent ==
    cpc = "symbol"
        => /\ FirstDecl(cmatch.captures) = "none" => csym = <<>>
           /\ csym # <<>> =>
                IF FirstDecl(cmatch.captures) = "type"
                THEN csym[1].kind \in {"type", "struct", "interface"}
                ELSE csym[1].kind = FirstDecl(cmatch.captures)
           /\ (/\ FirstDecl(cmatch.captures) # "none"
               /\ \E i \in 1..Len(cmatch.captures) :
                     /\ cmatch.captures[i].name = "name"
                     /\ cmatch.captures[i].text # <<>>
                     /\ \A j \in (i+1)..Len(cmatch.captures) :
                           cmatch.captures[j].name # "name")
                => csym # <<>>

\* A match with a const, a type and a name capture, the type capture first,
\* has been classified const.
C9_Witness ==
    /\ cpc = "symbol"
    /\ Len(cmatch.captures) = 3
    /\ cmatch.captures[1].name = "type"
    /\ cmatch.captures[2].name = "const"
    /\ csym # <<>>
    /\ csym[1].kind = "const"

\* C10: every Symbol that parseSymbolFromMatch (Symbols) or buildOutline
\* (Outline) produces has a non-empty name: a match whose name capture is
\* absent or empty yields no Symbol.
C10_EverySymbolNamed ==
    /\ csym # <<>> => csym[1].name # <<>>
    /\ \A i \in 1..Len(coutline.symbols) : coutline.symbols[i].name # <<>>

\* The first character of a UTF-8 string: the rune its first one, two or
\* three bytes encode (U+FFFD for an empty or ill-formed start).
FirstRune(name) ==
    IF Len(name) = 0 THEN 65533
    ELSE IF name[1] < 128 THEN name[1]
    ELSE IF name[1] \in 192..223 /\ Len(name) >= 2 /\ name[2] \in 128..191
         THEN (name[1] - 192) * 64 + (name[2] - 128)
    ELSE IF name[1] \in 224..239 /\ Len(name) >= 3 /\ name[2] \in 128..191
            /\ name[3] \in 128..191
         THEN (name[1] - 224) * 4096 + (name[2] - 128) * 64 + (name[3] - 128)
    ELSE 65533

\* The rule of the visibility of a name (the names of the model begin with a
\* character below U+0100).
PublicName(name) == IsUpper(FirstRune(name))

\* C11: every Symbol produced (by parseSymbolFromMatch or by buildOutline) is
\* "public" if and only if the first character of its name is an upper-case
\* letter, and "private" otherwise, for names that begin with an ASCII
\* letter and names that begin with a multi-byte letter alike.
C11_VisibilityByFirstCharacter ==
    /\ csym # <<>> =>
          csym[1].visibility = (IF PublicName(csym[1].name) THEN "public" ELSE "private")
    /\ \A i \in 1..Len(coutline.symbols) :
          coutline.symbols[i].visibility =
              (IF PublicName(coutline.symbols[i].name) THEN "public" ELSE "private")

\* The captures of a match list in the order findReferences visits them,
\* each with the file of its match.
RECURSIVE CapturesOf(_)
CapturesOf(ms) ==
    IF ms = <<>> THEN <<>>
    ELSE [i \in 1..Len(Head(ms).captures) |->
             [cap |-> Head(ms).captures[i], file |-> Head(ms).file]]
         \o CapturesOf(Tail(ms))

\* The captures whose text is the search term, in that order.
Hits == LET IsHit(c) == c.cap.text = symbolName IN SelectSeq(CapturesOf(cmatches), IsHit)

\* C12: findReferences returns exactly one Reference for each capture, in
\* each match, whose text equals the search term exactly, and none for any
\* other capture; each Reference has the term as its symbol and the start of
\* its capture as its position.
C12_OneReferencePerExactCapture ==
    cpc = "refs"
        => /\ Len(crefs) = Len(Hits)
           /\ \A k \in 1..Len(crefs) :
                 /\ crefs[k].symbol = symbolName
                 /\ crefs[k].position = Hits[k].cap.range.start
                 /\ crefs[k].file = Hits[k].file

\* A match with a capture Fooo, a capture Fo and a capture Foo, searched for
\* Foo, has given one Reference.
C12_Witness ==
    /\ cpc = "refs"
    /\ symbolName = TxtFoo
    /\ Len(cmatches) = 1
    /\ \E i \in 1..Len(cmatches[1].captures) : cmatches[1].captures[i].text = TxtFoo \o <<111>>
    /\ \E i \in 1..Len(cmatches[1].captures) : cmatches[1].captures[i].text = <<70, 111>>
    /\ Len(crefs) = 1

\* C13: the kind of a Reference is a function of the capture name alone:
\* call gives call, type_ref and composite_type give type_ref, field gives
\* field_access, ident and short_var give identifier, any other name gives
\* reference; no capture whose text is the term is dropped for its name.
C13_KindByCaptureName ==
    cpc = "refs"
        => /\ Len(crefs) = Len(Hits)
           /\ \A k \in 1..Len(crefs) :
                 /\ Hits[k].cap.name = "call" => crefs[k].kind = "call"
                 /\ Hits[k].cap.name = "type_ref" => crefs[k].kind = "type_ref"
                 /\ Hits[k].cap.name = "composite_type" => crefs[k].kind = "type_ref"
                 /\ Hits[k].cap.name = "field" => crefs[k].kind = "field_access"
                 /\ Hits[k].cap.name = "ident" => crefs[k].kind = "identifier"
                 /\ Hits[k].cap.name = "short_var" => crefs[k].kind = "identifier"
                 /\ Hits[k].cap.name \notin {"call", "type_ref", "composite_type", "field",
                                             "ident", "short_var"}
                       => crefs[k].kind = "reference"

\* A match with the captures short_var, operand and composite_type, all with
\* the text of the term, has given identifier, reference and type_ref.
C13_Witness ==
    /\ cpc = "refs"
    /\ Len(cmatches) = 1
    /\ Len(crefs) = 3
    /\ crefs[1].kind = "identifier"
    /\ cmatches[1].captures[1].name = "short_var"
    /\ crefs[2].kind = "reference"
    /\ cmatches[1].captures[2].name = "operand"
    /\ crefs[3].kind = "type_ref"
    /\ cmatches[1].captures[3].name = "composite_type"

\* C14: the search for a term in a file where it occurs once as a called
\* function and once as a type annotation, with the patterns of refs.scm,
\* gives exactly two References, one call and one type_ref, both with the
\* term as symbol.
C14_CallAndTypeRef ==
    (cpc = "refs" /\ cmatches = QueryRun("refs", ScenarioC) /\ symbolName = TxtFoo)
        => /\ Len(crefs) = 2
           /\ {crefs[k].kind : k \in 1..Len(crefs)} = {"call", "type_ref"}
           /\ \A k \in 1..Len(crefs) : crefs[k].symbol = TxtFoo

\* No worker, feeder or closer has been started and no file list exists.
NothingTouched ==
    /\ scans = 0
    /\ areads = 0
    /\ mainPc = "idle"
    /\ files = <<>>
    /\ feederPc = "idle"
    /\ fed = 0
    /\ \A w \in Workers : wpc[w] = "idle"

\* C15: a configuration error (empty query text in Query, empty symbol in
\* Refs, empty file in Outline, unregistered language in any aggregator) makes
\* the call return an error, and a call that ends with such an error has
\* scanned no directory, read no file and started no worker.
C15_ConfigErrorBeforeAnyFile ==
    apc = "done"
        => /\ (fn = "Query" /\ args.query = "") => ret.err = "query is required"
           /\ (fn = "Refs" /\ args.symbol = <<>>) => ret.err = "symbol is required"
           /\ (fn = "Outline" /\ args.file = 0) => ret.err = "file is required"
           /\ args.language = "zz" => ret.err \in ConfigErrors
           /\ ret.err \in ConfigErrors => NothingTouched /\ ret.isNil

\* Query on a directory with files, with an unregistered language, has
\* returned the error with nothing touched.
C15_Witness ==
    /\ apc = "done"
    /\ fn = "Query"
    /\ args.query = "ok"
    /\ args.language = "zz"
    /\ args.file = 0
    /\ args.dir = 2
    /\ ret.err = "language not registered"
    /\ NothingTouched

\* C16: the pattern is compiled exactly once per call, before discovery and
\* before dispatch; a compile error ends the call with that error, no file
\* scanned, read or parsed, and no partial result.
C16_CompiledOnceBeforeDiscovery ==
    /\ compiles <= 1
    /\ (scans > 0 \/ areads > 0 \/ mainPc # "idle" \/ files # <<>>
            \/ apc \in {"scan", "parse", "dispatch"})
          => compiles = 1
    /\ (apc = "done" /\ ret.err = "") => compiles = 1
    /\ (apc = "done" /\ fn = "Query" /\ args.query = "bad" /\ args.language # "zz")
          => ret.err = "compile query"
    /\ (apc = "done" /\ ret.err = "compile query")
          => compiles = 1 /\ NothingTouched /\ ret.isNil /\ ret.value = <<>>

\* Query with a malformed pattern on a directory with files has returned the
\* compile error after one compilation and no scan.
C16_Witness ==
    /\ apc = "done"
    /\ fn = "Query"
    /\ args.query = "bad"
    /\ args.file = 0
    /\ args.dir = 2
    /\ ret.err = "compile query"
    /\ compiles = 1
    /\ NothingTouched

\* C17: an empty result is not an error and is an empty, non-nil collection
\* both when no file qualifies and when files qualify but give no match:
\* Query, Symbols and Refs return no error and the same empty collection.
C17_EmptyResultNotNil ==
    apc = "done" /\ fn # "Outline"
        => /\ (args.file = 0 /\ args.language # "zz" /\ ret.err = "" /\ files = <<>>)
                => ret.value = <<>> /\ ~ret.isNil
           /\ (ret.err = "" /\ files # <<>> /\ ret.value = <<>>) => ~ret.isNil

\* C18: in every aggregator an unreadable file is absorbed silently: the call
\* returns no error and the file contributes no results.
C18_UnreadableFileAbsorbed ==
    (apc = "done" /\ \E i \in 1..Len(files) : ~Readable(files[i].content))
        => /\ ret.err = ""
           /\ fn # "Outline" =>
                 \A k \in 1..Len(ret.value) :
                     \A i \in 1..Len(files) :
                         ret.value[k].file = files[i].path => Readable(files[i].content)

\* The directory of a call and whether entry i of it is among the files.
CallDir == Dirs[args.dir]

Listed(i) == \E k \in 1..Len(files) : files[k].path = i

\* The walk has ended without an error in a directory-mode call.
Walked ==
    /\ scans = 1
    /\ apc \in {"dispatch", "done"}
    /\ fn # "Outline"
    /\ args.file = 0
    /\ ret.err # "walk"

\* C19: in directory mode with a positive byte ceiling a supported file larger
\* than the ceiling is left out of the file list and one of at most the
\* ceiling is in it; leaving a file out raises no error, and the results come
\* only from files within the ceiling.
C19_ByteCeiling ==
    (Walked /\ args.maxBytes > 0)
        => /\ \A i \in 1..Len(CallDir) :
                 (CallDir[i].supported /\ ~CallDir[i].ignored /\ ~CallDir[i].statErr)
                    => /\ CallDir[i].size > args.maxBytes => ~Listed(i)
                       /\ CallDir[i].size <= args.maxBytes => Listed(i)
           /\ apc = "done"
                 => /\ ret.err = ""
                    /\ \A k \in 1..Len(ret.value) :
                          CallDir[ret.value[k].file].size <= args.maxBytes

\* Symbols over the directory with a file above and a file exactly at the
\* ceiling has returned the symbols of the latter only.
C19_Witness ==
    /\ apc = "done"
    /\ fn = "Symbols"
    /\ args.file = 0
    /\ args.dir = 2
    /\ args.maxBytes = 9
    /\ files = <<FileJob(2, 4)>>
    /\ ret.err = ""
    /\ Len(ret.value) = 1
    /\ ret.value[1].file = 2

\* C20: with MaxBytes left at 0 no size limit is enforced: a directory scan
\* includes the supported files of every size.
C20_ZeroMeansNoLimit ==
    (Walked /\ args.maxBytes = 0)
        => \A i \in 1..Len(CallDir) :
              (CallDir[i].supported /\ ~CallDir[i].ignored /\ ~CallDir[i].statErr)
                 => Listed(i)

\* The symbols of a file under the "all" filter, with the source options of
\* the call.
AllSymbols(job) ==
    extractSymbols(QueryRun("symbols", job), "all", opts.includeSource, opts.maxSourceLines)

\* The symbols of a list that have visibility v, in the order of the list.
OfVisibility(syms, v) == LET Is(sym) == sym.visibility = v IN SelectSeq(syms, Is)

\* What the Visibility option of the call asks for of a file.
Wanted(job) ==
    CASE args.visibility = "public" -> OfVisibility(AllSymbols(job), "public")
      [] args.visibility = "private" -> OfVisibility(AllSymbols(job), "private")
      [] OTHER -> AllSymbols(job)

\* C21: the visibility filter of Symbols partitions the unfiltered result.
\* For each file, "public" returns exactly the symbols of the "all" result
\* that are public and "private" exactly those that are private, in the same
\* order; every symbol of the "all" result is in exactly one of the two; an
\* empty Visibility behaves as "all".  A file is reported once, and only when
\* it has a symbol to report.
C21_VisibilityPartitions ==
    (apc = "done" /\ fn = "Symbols" /\ ret.err = "")
        => /\ \A k \in 1..Len(ret.value) :
                 \E i \in 1..Len(files) :
                    /\ files[i].path = ret.value[k].file
                    /\ ret.value[k].symbols = Wanted(files[i])
           /\ \A i \in 1..Len(files) :
                 Readable(files[i].content)
                    => /\ Wanted(files[i]) # <<>>
                          => Cardinality({k \in 1..Len(ret.value) :
                                             ret.value[k].file = files[i].path}) = 1
                       /\ \A n \in 1..Len(AllSymbols(files[i])) :
                             AllSymbols(files[i])[n].visibility \in {"public", "private"}
                       /\ Len(OfVisibility(AllSymbols(files[i]), "public"))
                             + Len(OfVisibility(AllSymbols(files[i]), "private"))
                          = Len(AllSymbols(files[i]))

\* Symbols with Visibility "private" over the directory whose file declares
\* the public F and the private g has returned g alone.
C21_Witness ==
    /\ apc = "done"
    /\ fn = "Symbols"
    /\ args.visibility = "private"
    /\ args.file = 0
    /\ args.dir = 3
    /\ ret.err = ""
    /\ Len(ret.value) = 1
    /\ Len(AllSymbols(files[1])) = 2
    /\ Len(ret.value[1].symbols) = 1
    /\ ret.value[1].symbols[1].name = <<103>>

\* The lines of RefText with the white space at their ends removed.
TrimmedLines ==
    << <<118, 97, 114, 32, 120, 32, 70, 111, 111, 61, 70, 111, 111, 40, 41>>,
       <<102, 111, 111, 40, 70, 111, 111, 46, 70, 111, 111, 44, 70, 111, 111, 41>>,
       <<70, 111, 123, 125, 59, 70, 111, 111, 111, 58, 61, 70, 111, 111, 123, 125, 59,
         70, 111, 111, 58, 61, 49>> >>

\* C22: with the include-context flag set each Reference carries the
\* whitespace-trimmed text of the source line on which it starts; with the
\* flag not set the context of every Reference is empty.
C22_ContextIsTrimmedLine ==
    cpc = "refs"
        => \A k \in 1..Len(crefs) :
              crefs[k].context = IF includeContext THEN TrimmedLines[crefs[k].position.line]
                                 ELSE <<>>

\* A search with the flag set has found a reference on the second line, which
\* begins with a tab and ends with a space, and one on the third.
C22_Witness ==
    /\ cpc = "refs"
    /\ includeContext
    /\ Len(crefs) = 2
    /\ crefs[1].position.line = 2
    /\ crefs[1].context = TrimmedLines[2]
    /\ crefs[2].position.line = 3
    /\ crefs[2].context = TrimmedLines[3]

\* C23: with the File option set, Query, Symbols and Refs bypass discovery:
\* the file list is exactly that one file, whatever the Path option, the
\* extension of the file, its size relative to MaxBytes or the name of the
\* directory that holds it, and no directory is walked.
C23_FileModeBypassesDiscovery ==
    (fn # "Outline" /\ apc \in {"dispatch", "done"} /\ compiles = 1 /\ ret.err = ""
        /\ args.file # 0)
        => /\ files = <<FileJob(1, args.file)>>
           /\ scans = 0

\* Symbols on the file under the ignored directory name, larger than the
\* ceiling given, with a Path that holds other files, has returned the
\* symbols of that file.
C23_Witness ==
    /\ apc = "done"
    /\ fn = "Symbols"
    /\ args.file = 6
    /\ Named(args.file).ignored
    /\ args.maxBytes = 9
    /\ Named(args.file).size > args.maxBytes
    /\ args.dir = 3
    /\ files = <<FileJob(1, 6)>>
    /\ scans = 0
    /\ ret.err = ""
    /\ Len(ret.value) = 1

\* A symbol carries its declaration whole: its source has as many lines as
\* its range spans and does not end in the truncation marker.
Whole(sym) ==
    /\ Len(SplitLines(sym.source)) = sym.range.end.line - sym.range.start.line + 1
    /\ ~EndsWith(sym.source, <<10>> \o TxtEllipsis)

\* The symbols a finished Symbols or Outline call has returned.
Returned ==
    IF fn = "Outline" THEN {ret.value.symbols[n] : n \in 1..Len(ret.value.symbols)}
    ELSE UNION {{ret.value[k].symbols[n] : n \in 1..Len(ret.value[k].symbols)} :
                k \in 1..Len(ret.value)}

\* C24: a non-positive MaxSourceLines given to Symbols or Outline, with
\* IncludeSource set, means no truncation: the source of every symbol is
\* returned whole.
C24_NonPositiveMeansWhole ==
    (apc = "done" /\ fn \in {"Symbols", "Outline"} /\ ret.err = "" /\ args.includeSource
        /\ args.maxSourceLines <= 0)
        => \A sym \in Returned : Whole(sym)

\* The workers the dispatcher has started.
Started == {w \in Workers : w <= workerCount}

\* C25: each channel is closed exactly once and never sent to afterwards.  No
\* send on a closed channel and no second close happens (either would
\* panic); the job queue is closed only after the last job has been
\* enqueued; the result channel is closed only after every worker has
\* exited, so no worker is ever about to send on it once it is closed; and
\* when the dispatcher returns the result channel has been closed, and so has
\* the job queue if there was a file (with no file and no worker the feeder
\* may still be on its way to its close).
C25_ChannelsClosedOnce ==
    /\ ~panicked
    /\ jobClosed => (fed = Len(files) /\ feederPc = "done")
    /\ feederPc = "done" => jobClosed
    /\ resClosed => (wg = 0 /\ closerPc = "done" /\ \A w \in Started : wpc[w] = "exit")
    /\ closerPc = "done" => resClosed
    /\ \A w \in Workers : wpc[w] \in {"parse", "send"} => ~resClosed
    /\ mainPc = "done" => (resClosed /\ (files # <<>> => jobClosed))

\* A dispatch of two files on two workers has returned with results, both
\* channels closed.
C25_Witness ==
    /\ mainPc = "done"
    /\ Len(files) = 2
    /\ workerCount = 2
    /\ Len(allMatches) >= 2
    /\ jobClosed
    /\ resClosed
    /\ ~panicked

\* The workers that hold a file: between the receive of a job and the send of
\* its last result.
Busy == {w \in Workers : wpc[w] \in {"parse", "send"}}

\* The number of files taken from the job queue so far.
Taken == fed - Len(jobQueue)

\* A worker takes a job in this step: the job is the head of the queue and
\* the step removes it, and no other worker's job changes.
TakesHead ==
    \A w \in Workers :
        (wjob'[w] # wjob[w] /\ wjob'[w] # <<>>)
            => /\ jobQueue # <<>>
               /\ wjob'[w] = <<Head(jobQueue)>>
               /\ jobQueue' = Tail(jobQueue)
               /\ \A v \in Workers \ {w} : wjob'[v] = wjob[v]

\* The files enqueued are the first `fed` of the list, the queue holds the
\* last of them in order, the files held by workers are distinct files taken
\* before, and only started workers hold a file.
JobsNotShared ==
    /\ fed <= Len(files)
    /\ \A k \in 1..Len(jobQueue) : jobQueue[k] = files[Taken + k]
    /\ Busy \subseteq Started
    /\ \A w \in Workers : (w \in Busy) <=> (wjob[w] # <<>>)
    /\ \A w \in Busy : \E i \in 1..Taken : wjob[w][1] = files[i]
    /\ \A w \in Busy : \A v \in Busy : (w # v) => (wjob[w][1].path # wjob[v][1].path)
    /\ Cardinality(Busy) <= workerCount
    /\ (mainPc = "done" /\ files # <<>>) => (Taken = Len(files) /\ Busy = {})

\* C26: parallelism is bounded and jobs are not shared.  At every moment the
\* number of files being read, parsed or matched is at most the effective
\* worker count, and every file of the list is taken from the job queue by
\* exactly one worker, exactly once: a take removes the head of the queue, the
\* queue never holds a file twice, and at return every file has been taken.
C26_BoundedAndNotShared == [](JobsNotShared) /\ [][TakesHead]_vars

\* Two workers each hold one of the two files of the list.
C26_Witness ==
    /\ Len(files) = 2
    /\ workerCount = 2
    /\ Busy = {1, 2}
    /\ wjob[1][1].path # wjob[2][1].path
    /\ Taken = 2

\* The parser p of worker w is the one its parseFile calls use.
ParserInUse(w) == wparser[w]

\* C27: each worker creates its own parser and no parser is used by two
\* workers.  Every started worker has a parser, two workers never have the
\* same one (so at every moment a parser is in use by at most one worker),
\* and from its start to the return of the dispatcher a worker's parser
\* never changes: it uses the same one for all the jobs it takes.
C27_ParserPerWorker ==
    /\ [](\A w \in Started : mainPc # "start" => ParserInUse(w) # 0)
    /\ [](\A w \in Workers : \A v \in Workers :
             (w # v /\ wpc[w] = "parse" /\ wpc[v] = "parse")
                => ParserInUse(w) # ParserInUse(v))
    /\ [](\A w \in Started : \A v \in Started :
             (w # v /\ mainPc # "start") => ParserInUse(w) # ParserInUse(v))
    /\ [][mainPc = "drain" => wparser' = wparser]_vars

\* Two workers parse their files at the same moment, each with its parser.
C27_Witness ==
    /\ workerCount = 2
    /\ wpc[1] = "parse"
    /\ wpc[2] = "parse"
    /\ ParserInUse(1) # 0
    /\ ParserInUse(2) # 0
    /\ ParserInUse(1) # ParserInUse(2)

\* The dispatcher runs, with at least two workers, on a list in which the
\* parse of exactly one file never returns.
OneHangs ==
    /\ mainPc = "drain"
    /\ workerCount >= 2
    /\ Cardinality({i \in 1..Len(files) : Hangs(files[i].content)}) = 1

\* The started workers that have not left their loop.
Remaining == {w \in Started : wpc[w] # "exit"}

\* File i is a file of the list other than the hanging one.
OtherFile(i) == IF i <= Len(files) THEN OneHangs /\ ~Hangs(files[i].content) ELSE FALSE

\* The results of file i are in the caller's collection.
Collected(i) == IF i <= Len(files) THEN FromFile(allMatches, i) = Expected(i) ELSE FALSE

\* Only the worker in the parse of the hanging file has not left its loop.
OnlyHolderRemains ==
    /\ Cardinality(Remaining) = 1
    /\ \A w \in Remaining :
          IF wjob[w] = <<>> THEN FALSE ELSE wpc[w] = "parse" /\ Hangs(wjob[w][1].content)

\* C28: when the parse of one file never returns and at least two workers
\* run, only the worker holding that file is blocked.  Under fair scheduling
\* the results of every other file reach the caller's collection and every
\* other worker leaves its loop, while the dispatch call never returns and
\* the result channel is never closed.
C28_HungParseBlocksOneWorker ==
    /\ \A i \in 1..MaxFiles : OtherFile(i) ~> Collected(i)
    /\ OneHangs ~> OnlyHolderRemains
    /\ [](OneHangs => [](mainPc = "drain" /\ ~resClosed))

\* The worker holding the hanging file is in its parse, the other worker has
\* left, the results of the other file are with the caller, which waits.
C28_Witness ==
    /\ OneHangs
    /\ Len(files) = 2
    /\ Hangs(files[1].content)
    /\ OnlyHolderRemains
    /\ Len(allMatches) = 2
    /\ allMatches = Expected(2)
    /\ results = <<>>
    /\ ~resClosed

\* The positions of the type_def captures of the match classified.
TypeDefs == {i \in 1..Len(cmatch.captures) : cmatch.captures[i].name = "type_def"}

\* The node kind of the type_def capture (of the last one, if the list holds
\* several).
TypeDefNode == cmatch.captures[CHOOSE i \in TypeDefs : \A j \in TypeDefs : j <= i].nodeType

\* C29: for a match classified through its type capture the kind is refined
\* by the node kind of the type_def capture: prefix "struct" gives struct,
\* prefix "interface" gives interface, any other node kind gives type, and a
\* match without a type_def capture gives type.
C29_TypeKindRefined ==
    (cpc = "symbol" /\ csym # <<>> /\ FirstDecl(cmatch.captures) = "type")
        => csym[1].kind =
              (IF TypeDefs = {} THEN "type"
               ELSE IF Len(TypeDefNode) >= 6
                       /\ SubSeq(TypeDefNode, 1, 6) = <<115, 116, 114, 117, 99, 116>>
                    THEN "struct"
               ELSE IF Len(TypeDefNode) >= 9
                       /\ SubSeq(TypeDefNode, 1, 9)
                          = <<105, 110, 116, 101, 114, 102, 97, 99, 101>>
                    THEN "interface"
               ELSE "type")

\* A type match whose type_def capture is an interface_type node has been
\* classified interface.
C29_Witness ==
    /\ cpc = "symbol"
    /\ csym # <<>>
    /\ FirstDecl(cmatch.captures) = "type"
    /\ TypeDefs # {}
    /\ TypeDefNode = <<105, 110, 116, 101, 114, 102, 97, 99, 101, 95, 116, 121, 112, 101>>
    /\ csym[1].kind = "interface"

\* The texts of the parts of a signature that are present, in the fixed
\* order: the token func, the receiver, the name, the parameter list, the
\* result.
SignatureParts(captures) ==
    <<TxtFunc>>
    \o (IF Has(captures, "receiver") THEN <<Lookup(captures, "receiver").text>> ELSE <<>>)
    \o (IF Has(captures, "name") THEN <<Lookup(captures, "name").text>> ELSE <<>>)
    \o (IF Has(captures, "params") THEN <<Lookup(captures, "params").text>> ELSE <<>>)
    \o (IF Has(captures, "result") THEN <<Lookup(captures, "result").text>> ELSE <<>>)

\* The parts joined with one space between consecutive parts.
RECURSIVE JoinSpaces(_)
JoinSpaces(parts) ==
    IF Len(parts) = 1 THEN parts[1]
    ELSE parts[1] \o <<32>> \o JoinSpaces(Tail(parts))

\* C30: the signature of a function or method symbol is the concatenation,
\* in the fixed order, of the token func, the receiver text if present, the
\* name, the parameter-list text and the result text if present, with exactly
\* one space between consecutive parts that are present.
C30_SignatureSingleSpaces ==
    (cpc = "symbol" /\ csym # <<>> /\ FirstDecl(cmatch.captures) \in {"function", "method"})
        => csym[1].signature = JoinSpaces(SignatureParts(cmatch.captures))

\* The receiver text without one leading "(" and one trailing ")".
Unwrapped == TrimSuffix(TrimPrefix(utext, <<40>>), <<41>>)

\* The receiver texts (r *T), (r T), (*T) and (T).
ReceiverForms ==
    {<<40, 114, 32, 42, 84, 41>>, <<40, 114, 32, 84, 41>>, <<40, 42, 84, 41>>, <<40, 84, 41>>}

\* C31: extractReceiverType returns the last whitespace-separated token of
\* the receiver text without its enclosing parentheses, with one leading "*"
\* removed; a text that holds no token gives a result that holds none; the
\* texts (r *T), (r T), (*T) and (T) all give T.
C31_ReceiverTypeIsLastToken ==
    cpc = "receiver" =>
        /\ Fields(Unwrapped) # <<>> =>
             uout = TrimPrefix(Fields(Unwrapped)[Len(Fields(Unwrapped))], <<42>>)
        /\ Fields(Unwrapped) = <<>> => Fields(uout) = <<>>
        /\ utext \in ReceiverForms => uout = <<84>>

C31_Witness ==
    /\ cpc = "receiver"
    /\ utext = <<40, 114, 32, 42, 84, 41>>
    /\ uout = <<84>>

\* The lines of the text handed to truncateSource, and of its result.
LinesIn == SplitLines(utext)

LinesOut == SplitLines(uout)

\* C32: truncateSource(s, n) returns s unchanged when n <= 0 or when s has
\* at most n lines; otherwise the result is the first n lines of s followed
\* by one marker line "...".
C32_TruncateKeepsFirstLines ==
    cpc = "truncate" =>
        IF umax <= 0 \/ Len(LinesIn) <= umax
        THEN uout = utext
        ELSE LinesOut = SubSeq(LinesIn, 1, umax) \o <<TxtEllipsis>>

C32_Witness ==
    /\ cpc = "truncate"
    /\ umax = 2
    /\ utext = <<97, 10, 97, 10, 97>>
    /\ uout = <<97, 10, 97, 10, 46, 46, 46>>

\* A result of truncateSource for a positive maximum has at most
\* maxLines + 1 lines.
Bounded == (cpc \in {"truncate", "again"} /\ umax > 0) => Len(LinesOut) <= umax + 1

\* truncateSource applied to its own result, with the same positive maximum,
\* returns that result.
Idempotent == (cpc = "truncate" /\ cpc' = "again" /\ umax > 0) => uout' = uout

\* C38: for every text s and every n > 0, truncateSource(truncateSource(s, n), n)
\* equals truncateSource(s, n), and the result has at most n + 1 lines.
C38_TruncateIdempotentBounded == [](Bounded) /\ [][Idempotent]_vars

C38_Witness ==
    /\ cpc = "again"
    /\ umax = 2
    /\ utext = <<97, 10, 97, 10, 46, 46, 46>>
    /\ uout = utext

KindCaptures ==
    {cmatch.captures[i] : i \in {j \in 1..Len(cmatch.captures) :
                                    cmatch.captures[j].name = FirstDecl(cmatch.captures)}}

Carries(n) == \E i \in 1..Len(cmatch.captures) : cmatch.captures[i].name = n

LastText(n) ==
    IF Carries(n)
    THEN cmatch.captures[CHOOSE i \in 1..Len(cmatch.captures) :
            /\ cmatch.captures[i].name = n
            /\ \A j \in 1..Len(cmatch.captures) : cmatch.captures[j].name = n => j <= i].text
    ELSE <<>>

\* The names that occur more than once in the match under study.
Repeated ==
    {n \in {"name", "receiver", "params", "result"} :
        Cardinality({i \in 1..Len(cmatch.captures) : cmatch.captures[i].name = n}) > 1}

\* C35: the captures of a match are indexed by name with last-write-wins:
\* the name, the receiver and the parts of the signature of the Symbol come
\* from the last capture carrying the name.
C35_LastCaptureWins ==
    (cpc = "symbol" /\ csym # <<>>) =>
        /\ csym[1].name = LastText("name")
        /\ (csym[1].kind = "method" /\ Carries("receiver"))
              => csym[1].receiver = extractReceiverType(LastText("receiver"))
        /\ csym[1].kind \in {"function", "method"} =>
              csym[1].signature =
                  TxtFunc
                  \o (IF Carries("receiver") THEN <<32>> \o LastText("receiver") ELSE <<>>)
                  \o <<32>> \o LastText("name")
                  \o LastText("params")
                  \o (IF Carries("result") THEN <<32>> \o LastText("result") ELSE <<>>)

C35_Witness ==
    /\ cpc = "symbol"
    /\ csym # <<>>
    /\ csym[1].kind = "method"
    /\ Repeated = {"receiver"}
    /\ LastText("receiver") = <<40, 115, 32, 83, 41>>
    /\ csym[1].receiver = <<83>>

\* No goroutine of the dispatcher is left: the feeder has enqueued every job
\* and closed the job queue, every started worker has exited, and the closer
\* has closed the result channel.
AllGone ==
    /\ feederPc = "done"
    /\ fed = Len(files)
    /\ jobClosed
    /\ \A w \in Started : wpc[w] = "exit"
    /\ wg = 0
    /\ closerPc = "done"
    /\ resClosed

Passing(job) ==
    LET Passes(sym) == visibility \notin {"public", "private"} \/ sym.visibility = visibility
    IN  IF Readable(job.content)
        THEN SelectSeq(extractSymbols(QueryRun("symbols", job), "all", includeSource,
                                      maxSourceLines), Passes)
        ELSE <<>>

\* The results returned for the i-th input file.
ResultsOf(i) == {k \in 1..Len(allMatches) : allMatches[k].file = files[i].path}

\* C37: the result of runSymbolsWorkers holds at most one SymbolsResult per
\* input file: a file appears exactly once when at least one of its symbols
\* passes the visibility filter and not at all otherwise; no SymbolsResult
\* has an empty symbol list; every symbol has the file of its result.
C37_OneResultPerFile ==
    (mainPc = "done" /\ kind = "symbols") =>
        /\ \A i \in 1..Len(files) :
              Cardinality(ResultsOf(i)) = (IF Passing(files[i]) # <<>> THEN 1 ELSE 0)
        /\ \A k \in 1..Len(allMatches) :
              /\ \E i \in 1..Len(files) : k \in ResultsOf(i)
              /\ allMatches[k].symbols # <<>>
              /\ \A n \in 1..Len(allMatches[k].symbols) :
                    allMatches[k].symbols[n].file = allMatches[k].file

\* A dispatch of two files on two workers under the "private" filter has
\* returned one result: the second file has a public symbol only.
C37_Witness ==
    /\ mainPc = "done"
    /\ kind = "symbols"
    /\ visibility = "private"
    /\ Len(files) = 2
    /\ workerCount = 2
    /\ Passing(files[2]) = <<>>
    /\ Len(QueryRun("symbols", files[2])) > 0
    /\ Len(allMatches) = 1
    /\ allMatches[1].file = files[1].path
    /\ Len(allMatches[1].symbols) = 1

\* A directory-mode call of Query, Symbols or Refs has ended after a walk
\* that met an entry it could not read.
WalkFailed ==
    /\ apc = "done"
    /\ scans = 1
    /\ fn # "Outline"
    /\ args.file = 0
    /\ \E i \in 1..Len(CallDir) : CallDir[i].walkErr /\ ~CallDir[i].ignored

\* The dispatcher has not been entered: no file list, no worker, feeder or
\* closer, no file read.
NoDispatch ==
    /\ areads = 0
    /\ mainPc = "idle"
    /\ files = <<>>
    /\ workerCount = 0
    /\ feederPc = "idle"
    /\ closerPc = "idle"
    /\ \A w \in Workers : wpc[w] = "idle"
    /\ allMatches = <<>>

\* C39: an error met while walking the directory tree is not absorbed like a
\* per-file read error: Query, Symbols and Refs return that error with no
\* results (also none of the files the walk had passed before the error) and
\* without starting any worker.
C39_WalkErrorReturned ==
    WalkFailed =>
        /\ ret.err = "walk"
        /\ ret.isNil
        /\ ret.value = <<>>
        /\ NoDispatch

\* The walk of the directory that holds main.go and then an unreadable entry
\* has failed in a call with default ceiling.
C39_Witness ==
    /\ WalkFailed
    /\ args.dir = 5
    /\ CallDir[1].supported /\ ~CallDir[1].walkErr
    /\ CallDir[2].walkErr
    /\ ret.err = "walk"
    /\ NoDispatch

====
